---- MODULE Spec2Model ----
(***************************************************************************)
(* Helm bridge: the hub session (HAWebSocketClient), the cloud session     *)
(* (CloudClient), the credential store and the orchestrator (HelmBridge).  *)
(* Every handler of the event loop is one action; a continuation that      *)
(* runs in a microtask right after a promise settles is part of the        *)
(* action that settles the promise.                                        *)
(***************************************************************************)
EXTENDS Integers, Sequences, FiniteSets, TLC

\* ---- bounds of the model ------------------------------------------------
MaxMsgId == 8          \* hub frame ids handed out by getNextId
MaxCmdId == 1          \* distinct cmdId values the cloud uses
MaxCmdFrames == 2      \* command frames the cloud sends in a run
MaxHubSockets == 2     \* hub WebSocket objects alive at once
MaxCloudSockets == 2   \* cloud WebSocket objects alive at once
MaxEvents == 3         \* state_changed events the hub sends in a run
MaxSyncs == 1          \* request_full_sync frames the cloud sends in a run
MaxBeats == 2          \* heartbeat frames the bridge writes in a run
MaxReqs == 3           \* pairing requests the cloud serves in a run
MaxSrvConns == 3       \* connections the cloud's WebSocket server accepts in a run
MaxSchedCalls == 4     \* start() and stop() calls on the token refresh scheduler
MaxCycles == 3         \* refresh cycles started in a run

\* ---- program constants --------------------------------------------------
maxReconnectAttempts == 10
reconnectDelay == 1000
HubDelayCap == 30000
CloudDelayCap == 60000
batchIntervalMs == 500
pollInterval == 5000
maxAttempts == 120

MsgIds == 1..MaxMsgId
CmdIds == 1..MaxCmdId
HubSlots == 1..MaxHubSockets
CloudSlots == 1..MaxCloudSockets
EntityIds == {"light.a", "light.b"}
SyncIds == 1..MaxSyncs

\* the five hub calls of collectFullSync, in the order Promise.all lists them
CallOrder == <<"areas", "devices", "states", "services", "entities">>
Collections == {CallOrder[i] : i \in 1..Len(CallOrder)}
BridgeCredentials == {"bc_deadbeef", "bc_cafe"}
TenantIds == {"42", "7"}

VARIABLES
  pcStart,              \* position of HelmBridge.start()
  startSock,            \* hub socket whose connect() promise start() awaits
  haSock,               \* hub WebSocket objects: readyState per slot
  haWs,                 \* HAWebSocketClient.ws (0 = null)
  haSrv,                \* hub side of the auth handshake, per socket
  haAuthenticated,      \* HAWebSocketClient.authenticated
  eventSubscriptionId,  \* 0 = null
  subscribedOn,         \* history: the socket the last subscribe_events frame was written to, or 0
  haReconnectAttempts,
  haReconnectTimer,     \* 0 = no timer armed, else the delay it was armed with
  haShouldReconnect,
  messageId,
  pendingResponses,     \* keys of the waiters table
  rpc,                  \* per issued id: owner, promise, timer, hub side
  hubDelays,            \* history: delays scheduled since a hub socket last opened
  haAuthFailedEmitted,  \* history: 'auth_failed' was emitted
  haAuthInvalidSeen,    \* history: the hub sent auth_invalid
  haDisconnectCalled,   \* history: disconnect() was called
  cloudSock,
  cloudWs,
  cloudSrv,             \* cloud side of the auth handshake, per socket
  cloudAuthenticated,
  cloudReconnectAttempts,
  cloudReconnectTimer,
  cloudShouldReconnect,
  heartbeatTimer,
  tickers,              \* history: intervals made by startHeartbeat and not cleared
  credentials,          \* CredentialStore.credentials (in memory)
  credFile,             \* the credential file
  cloudOut,             \* history: command_ack / command_result frames written
  cmdFrames,            \* history: number of command frames received
  lastCmd,              \* history: the command frame received last
  revokedSeen,          \* history: an auth_result failure naming revocation arrived
  disconnectSeen,       \* history: the reason of the last disconnect frame, or "none"
  cloudDelays,          \* history: delays scheduled since a cloud socket last opened
  stateChangeQueue,     \* HelmBridge.stateChangeQueue
  batchTimer,           \* HelmBridge.batchTimer: 0 = null, else the delay it was armed with
  flushTimers,          \* flush timeouts that are armed and not yet fired or cleared
  batchOut,             \* history: the event lists of the state_batch frames written
  evCount,              \* history: number of state_changed events received
  discarded,            \* history: events dropped by a flush without a cloud session
  clearedSince,         \* history: clear() was called and no save() has completed since
  pollAttempts,         \* pollForPairing: attempts
  pollTimer,            \* 0 = no poll timeout armed, else the delay it was armed with
  pcPoll,               \* position of the polling loop
  pollSock,             \* cloud socket whose connect() promise poll() awaits
  statusRequests,       \* history: status requests issued for the pairing code
  srvCode,              \* cloud side: the record of the bridge's pairing code
  srvCred,              \* cloud side: the credential made when the code was redeemed
  pairedSeen,           \* history: a poll returned paired with a credential and saved it
  loopEnded,            \* history: the polling loop met a termination condition
  startPath,            \* history: the branch start() took after the hub phase
  syncRes,              \* per collectFullSync call: how each of its five hub calls ended
  syncOut,              \* history: the full_sync frames written
  syncCount,            \* history: number of request_full_sync frames received
  dbCode,               \* cloud storage: the pairing code record
  dbCreds,              \* cloud storage: the bridge credentials, in creation order
  dbRegs,               \* cloud storage: the users who have a bridge registration
  httpReq,              \* cloud: the pairing requests in flight, by request
  srvConn,              \* cloud WebSocket server: connectionState per connection
  connectedBridges,     \* cloud WebSocket server: bridgeId -> connection, 0 = no entry
  srvDelivered,         \* history: what the last sendCommand returned, per bridgeId
  intervalId,           \* TokenRefreshScheduler.intervalId: FALSE = null
  schedStatus,          \* TokenRefreshScheduler.status: running and nextRunAt set
  schedIntervals,       \* intervals made by start() and not cleared
  schedTimeouts,        \* 60 s timeouts made by start() that have not fired
  schedCalls,           \* history: number of start() and stop() calls
  schedStopped,         \* history: stop() has returned and start() has not run since
  cycles,               \* refresh cycles in progress, by position
  lastAct               \* history: the handler that ran last

startVars == <<pcStart, startSock>>
hubVars == <<haSock, haWs, haSrv, haAuthenticated, eventSubscriptionId, subscribedOn,
             haReconnectAttempts, haReconnectTimer, haShouldReconnect,
             hubDelays, haAuthFailedEmitted, haAuthInvalidSeen, haDisconnectCalled>>
rpcVars == <<messageId, pendingResponses, rpc>>
cloudVars == <<cloudSock, cloudWs, cloudSrv, cloudAuthenticated,
               cloudReconnectAttempts, cloudReconnectTimer, cloudShouldReconnect,
               heartbeatTimer, tickers, revokedSeen, disconnectSeen, cloudDelays>>
cloudHist == <<revokedSeen, disconnectSeen, cloudDelays>>
credVars == <<credentials, credFile, clearedSince>>
cmdVars == <<cloudOut, cmdFrames, lastCmd>>
batchVars == <<stateChangeQueue, batchTimer, flushTimers, batchOut, evCount, discarded>>
pairVars == <<pollAttempts, pollTimer, pcPoll, pollSock, statusRequests, srvCode, srvCred,
              pairedSeen, loopEnded, startPath>>
syncVars == <<syncRes, syncOut, syncCount>>
pairSrvVars == <<dbCode, dbCreds, dbRegs, httpReq>>
wsSrvVars == <<srvConn, connectedBridges, srvDelivered>>
schedVars == <<intervalId, schedStatus, schedIntervals, schedTimeouts, schedCalls, schedStopped, cycles>>
serverVars == <<pairSrvVars, wsSrvVars, schedVars>>
vars == <<startVars, hubVars, rpcVars, cloudVars, credVars, cmdVars, batchVars, pairVars,
          syncVars, serverVars, lastAct>>

\* ---- values -------------------------------------------------------------
\* null: no credential
NoCred == [absent |-> TRUE]
Cred == [bridgeId |-> "helm-bridge-abcd1234", bridgeCredential |-> "bc_deadbeef",
         tenantId |-> "42"]

\* the commandType values of CommandMessageSchema
CommandTypes == {"ha_call_service", "ha_full_resync", "ha_refresh_entity"}

\* no command frame yet
NoCmd == [cmdId |-> 0, commandType |-> "none", expired |-> FALSE]

NoRpc == [owner |-> "none", cmd |-> 0, promise |-> "none", calls |-> 0,
          timer |-> FALSE, sentOn |-> 0]

Min(a, b) == IF a < b THEN a ELSE b

RECURSIVE Pow2(_)
Pow2(n) == IF n = 0 THEN 1 ELSE 2 * Pow2(n - 1)

\* the hub delay computed with the cloud session's cap
HubDelayCloudCap(attempts) == Min(reconnectDelay * Pow2(attempts), CloudDelayCap)

\* Math.min(this.reconnectDelay * Math.pow(2, this.reconnectAttempts), 30000)
HubDelay(attempts) == Min(reconnectDelay * Pow2(attempts), HubDelayCap)

\* the cloud delay computed with the hub session's cap
CloudDelayHubCap(attempts) == Min(reconnectDelay * Pow2(attempts), HubDelayCap)

\* Math.min(this.reconnectDelay * Math.pow(2, this.reconnectAttempts), 60000)
CloudDelay(attempts) == Min(reconnectDelay * Pow2(attempts), CloudDelayCap)

\* lowest free slot for a new WebSocket object
FreeSlot(sock, slots) == CHOOSE s \in slots : sock[s] = "free" /\ \A t \in slots : sock[t] = "free" => s <= t

HasFree(sock, slots) == \E s \in slots : sock[s] = "free"

\* CredentialStore.isPaired
isPaired(c) == c # NoCred /\ c.bridgeCredential # ""

Alive == pcStart # "exited"


\* ---- cloud session: connect and the outbound helpers --------------------
\* CloudClient.send: the frame is written iff this.ws is OPEN
cloudCanSend == cloudWs # 0 /\ cloudSock[cloudWs] = "open"

\* a connect that makes a WebSocket whether or not a credential is resident
connectUnguarded(c) ==
  /\ HasFree(cloudSock, CloudSlots)
  /\ cloudSock' = [cloudSock EXCEPT ![FreeSlot(cloudSock, CloudSlots)] = "connecting"]
  /\ cloudWs' = FreeSlot(cloudSock, CloudSlots)

\* CloudClient.connect with credential c resident: a no-op without a
\* credential, else a new WebSocket
connect(c) ==
  IF ~isPaired(c)
  THEN UNCHANGED <<cloudSock, cloudWs>>
  ELSE /\ HasFree(cloudSock, CloudSlots)
       /\ cloudSock' = [cloudSock EXCEPT ![FreeSlot(cloudSock, CloudSlots)] = "connecting"]
       /\ cloudWs' = FreeSlot(cloudSock, CloudSlots)

\* CloudClient.connect called by a handler that leaves the store alone
cloudConnect == connect(credentials)

\* the frame CloudClient.sendCommandAck writes, when the socket takes it
CommandAckOut(out, cmdId) ==
  IF cloudCanSend THEN Append(out, [type |-> "command_ack", cmdId |-> cmdId, status |-> "acknowledged"])
  ELSE out

\* a command_result that never carries an error object
CommandResultOutBare(out, cmdId, status) ==
  IF cloudCanSend
  THEN Append(out, [type |-> "command_result", cmdId |-> cmdId, status |-> status,
                    haResponse |-> status = "completed", code |-> "none"])
  ELSE out

\* the frame CloudClient.sendCommandResult writes, when the socket takes it:
\* handleCloudCommand passes the hub response with 'completed' and the error
\* code EXECUTION_FAILED with 'failed'
CommandResultOut(out, cmdId, status) ==
  IF cloudCanSend
  THEN Append(out, [type |-> "command_result", cmdId |-> cmdId, status |-> status,
                    haResponse |-> status = "completed",
                    code |-> IF status = "failed" THEN "EXECUTION_FAILED" ELSE "none"])
  ELSE out

\* CloudClient.sendCommandResult
sendCommandResult(cmdId, status) == cloudOut' = CommandResultOut(cloudOut, cmdId, status)

\* ---- hub session: the request multiplexer -------------------------------
haCanSend == haWs # 0 /\ haSock[haWs] = "open"

\* a sendCommand whose getNextId hands out the counter without advancing it
IssueRpcSameId(base, pend, id, owner, cmdId) ==
  /\ id <= MaxMsgId
  /\ rpc' = [base EXCEPT ![id] =
               [owner |-> owner, cmd |-> cmdId, promise |-> "pending", calls |-> 0,
                timer |-> TRUE, sentOn |-> IF haCanSend THEN haWs ELSE 0]]
  /\ pendingResponses' = pend \cup {id}
  /\ messageId' = id

\* HAWebSocketClient.sendCommand past the authenticated check: next id, waiter,
\* frame, 30 s timer.  base/pend are the table and the waiters before the call.
IssueRpc(base, pend, id, owner, cmdId) ==
  /\ id <= MaxMsgId
  /\ rpc' = [base EXCEPT ![id] =
               [owner |-> owner, cmd |-> cmdId, promise |-> "pending", calls |-> 0,
                timer |-> TRUE, sentOn |-> IF haCanSend THEN haWs ELSE 0]]
  /\ pendingResponses' = pend \cup {id}
  /\ messageId' = id + 1

\* a start() that asks for a pairing code whatever the store holds
StartTailAlwaysPairs ==
  /\ pcStart' = "request_code"
  /\ UNCHANGED <<cloudSock, cloudWs>>

\* HelmBridge.start after the hub phase: cloud connect when paired, else the
\* POST of requestAndDisplayPairingCode is issued
StartTail ==
  IF isPaired(credentials)
  THEN /\ cloudConnect
       /\ pcStart' = "done"
  ELSE /\ pcStart' = "request_code"
       /\ UNCHANGED <<cloudSock, cloudWs>>

\* the branch a step of start() has just taken, if any
PathTaken ==
  IF pcStart \in {"get_entities", "get_states"} /\ pcStart' = "done" THEN "cloud"
  ELSE IF pcStart \in {"get_entities", "get_states"} /\ pcStart' = "request_code" THEN "pairing"
  ELSE startPath

\* the continuation of the caller that awaits promise id, run when it settles
Continue(id, base, pend, outcome) ==
  CASE base[id].owner = "getEntities" ->
         \* start(): getStates() is issued next
         IF haAuthenticated
         THEN /\ IssueRpc(base, pend, messageId, "getStates", 0)
              /\ pcStart' = "get_states"
              /\ UNCHANGED <<cloudSock, cloudWs, cloudOut>>
         ELSE /\ rpc' = base
              /\ pendingResponses' = pend
              /\ StartTail
              /\ UNCHANGED <<messageId, cloudOut>>
    [] base[id].owner = "getStates" ->
         /\ rpc' = base
         /\ pendingResponses' = pend
         /\ StartTail
         /\ UNCHANGED <<messageId, cloudOut>>
    [] base[id].owner = "call_service" ->
         \* handleCloudCommand: completed on fulfilment, failed on any rejection
         /\ rpc' = base
         /\ pendingResponses' = pend
         /\ sendCommandResult(base[id].cmd, IF outcome = "fulfilled" THEN "completed" ELSE "failed")
         /\ UNCHANGED <<messageId, pcStart, cloudSock, cloudWs>>
    [] OTHER ->
         /\ rpc' = base
         /\ pendingResponses' = pend
         /\ UNCHANGED <<messageId, pcStart, cloudSock, cloudWs, cloudOut>>

\* resolve/reject of waiter id: the promise settles and its awaiter continues
Settle(id, outcome) ==
  LET base == [rpc EXCEPT ![id].promise = IF @ = "pending" THEN outcome ELSE @,
                          ![id].calls = @ + 1,
                          ![id].sentOn = IF outcome = "timeout" THEN @ ELSE 0,
                          ![id].timer = IF outcome = "timeout" THEN FALSE ELSE @]
      pend == pendingResponses \ {id}
  IN  IF rpc[id].promise = "pending"
      THEN Continue(id, base, pend, outcome)
      ELSE /\ rpc' = base
           /\ pendingResponses' = pend
           /\ UNCHANGED <<messageId, pcStart, cloudSock, cloudWs, cloudOut>>

\* a handleResult that calls resolve or reject without looking for the waiter
handleResultUnchecked(id, success) == Settle(id, IF success THEN "fulfilled" ELSE "rejected")

\* HAWebSocketClient.handleResult
handleResult(id, success) ==
  IF id \in pendingResponses
  THEN Settle(id, IF success THEN "fulfilled" ELSE "rejected")
  ELSE /\ rpc' = [rpc EXCEPT ![id].sentOn = 0]
       /\ UNCHANGED <<pendingResponses, messageId, pcStart, cloudSock, cloudWs, cloudOut>>

\* the setTimeout callback of sendCommand
commandTimeout(id) ==
  IF id \in pendingResponses
  THEN Settle(id, "timeout")
  ELSE /\ rpc' = [rpc EXCEPT ![id].timer = FALSE]
       /\ UNCHANGED <<pendingResponses, messageId, pcStart, cloudSock, cloudWs, cloudOut>>


\* ---- full sync -----------------------------------------------------------
\* what the hub answers to the registry and state queries
HubAreas == <<[area_id |-> "kitchen", name |-> "Kitchen"]>>
HubDevices == <<[id |-> "dev1", name |-> "Lamp", area_id |-> "kitchen"]>>
HubStates == <<[entity_id |-> "light.a", state |-> "on"], [entity_id |-> "light.b", state |-> "off"]>>
HubServices == <<[domain |-> "light", services |-> {"turn_on", "turn_off"}]>>

\* HARestClient.mapAreaToProtocol
mapAreaToProtocol(area) == [id |-> area.area_id, name |-> area.name]

\* HARestClient.mapDeviceToProtocol
mapDeviceToProtocol(device) == [id |-> device.id, name |-> device.name, areaId |-> device.area_id]

\* HARestClient.mapStateToProtocol, without the deviceId and areaId it copies
\* from the entity registry
mapStateToProtocol(state) == [entityId |-> state.entity_id, state |-> state.state]

\* HARestClient.mapServiceToProtocol
mapServiceToProtocol(serviceDomain) == [domain |-> serviceDomain.domain, services |-> serviceDomain.services]

\* what a call of collectFullSync yields to Promise.all: the hub's answer, or
\* the empty collection its catch handler returns
Raw(res, c, answer) == IF res[c] = "fulfilled" THEN answer ELSE <<>>

\* a collectFullSync that throws when one of its calls has failed
FullSyncOutAborting(out, k, res) ==
  IF cloudCanSend /\ \A c \in Collections : res[c] = "fulfilled"
  THEN Append(out, [type |-> "full_sync", k |-> k,
                    areas |-> [i \in 1..Len(HubAreas) |-> mapAreaToProtocol(HubAreas[i])],
                    devices |-> [i \in 1..Len(HubDevices) |-> mapDeviceToProtocol(HubDevices[i])],
                    entities |-> [i \in 1..Len(HubStates) |-> mapStateToProtocol(HubStates[i])],
                    services |-> [i \in 1..Len(HubServices) |-> mapServiceToProtocol(HubServices[i])]])
  ELSE out

\* collectFullSync after Promise.all, then sendFullSync: the frame of call k,
\* when the socket takes it
FullSyncOut(out, k, res) ==
  LET areasList == Raw(res, "areas", HubAreas)
      devicesList == Raw(res, "devices", HubDevices)
      statesList == Raw(res, "states", HubStates)
      servicesDomainArray == Raw(res, "services", HubServices)
  IN  IF cloudCanSend
      THEN Append(out, [type |-> "full_sync", k |-> k,
                        areas |-> [i \in 1..Len(areasList) |-> mapAreaToProtocol(areasList[i])],
                        devices |-> [i \in 1..Len(devicesList) |-> mapDeviceToProtocol(devicesList[i])],
                        entities |-> [i \in 1..Len(statesList) |-> mapStateToProtocol(statesList[i])],
                        services |-> [i \in 1..Len(servicesDomainArray) |->
                                        mapServiceToProtocol(servicesDomainArray[i])]])
      ELSE out

\* waiter id settles: when it belongs to a collectFullSync call its outcome is
\* noted, and when it was the last of the five the frame is built and sent
syncEffect(id, outcome) ==
  IF id \in pendingResponses /\ rpc[id].promise = "pending" /\ rpc[id].owner \in Collections
  THEN LET k == rpc[id].cmd
           res == [syncRes[k] EXCEPT ![rpc[id].owner] =
                     IF outcome = "fulfilled" THEN "fulfilled" ELSE "failed"]
       IN  /\ syncRes' = [syncRes EXCEPT ![k] = res]
           /\ syncOut' = IF \A c \in Collections : res[c] # "pending"
                         THEN FullSyncOut(syncOut, k, res)
                         ELSE syncOut
  ELSE UNCHANGED <<syncRes, syncOut>>

\* ---- hub session: connection lifecycle ----------------------------------
\* HAWebSocketClient.scheduleReconnect
haScheduleReconnect ==
  IF haReconnectAttempts >= maxReconnectAttempts
  THEN /\ haReconnectTimer' = 0
       /\ UNCHANGED <<haReconnectAttempts, hubDelays>>
  ELSE /\ haReconnectTimer' = HubDelay(haReconnectAttempts)
       /\ haReconnectAttempts' = haReconnectAttempts + 1
       /\ hubDelays' = Append(hubDelays, HubDelay(haReconnectAttempts))

\* the 'close' handler installed by HAWebSocketClient.connect
haOnClose ==
  /\ haAuthenticated' = FALSE
  /\ eventSubscriptionId' = 0
  /\ UNCHANGED subscribedOn
  /\ IF haShouldReconnect
     THEN haScheduleReconnect
     ELSE UNCHANGED <<haReconnectTimer, haReconnectAttempts, hubDelays>>

\* HAWebSocketClient.connect: a new WebSocket replaces this.ws
haConnect ==
  /\ HasFree(haSock, HubSlots)
  /\ haSock' = [haSock EXCEPT ![FreeSlot(haSock, HubSlots)] = "connecting"]
  /\ haWs' = FreeSlot(haSock, HubSlots)

\* disconnect() that forgets to turn should-reconnect off
haDisconnectKeepsReconnect ==
  /\ haShouldReconnect' = haShouldReconnect
  /\ haReconnectTimer' = 0
  /\ haSock' = IF haWs = 0 THEN haSock
               ELSE [haSock EXCEPT ![haWs] = IF @ = "connecting" THEN "aborting"
                                             ELSE IF @ = "open" THEN "closing" ELSE @]
  /\ haWs' = 0
  /\ haAuthenticated' = FALSE
  /\ pendingResponses' = {}
  /\ haDisconnectCalled' = TRUE

\* HAWebSocketClient.disconnect
haDisconnect ==
  /\ haShouldReconnect' = FALSE
  /\ haReconnectTimer' = 0
  /\ haSock' = IF haWs = 0 THEN haSock
               ELSE [haSock EXCEPT ![haWs] = IF @ = "connecting" THEN "aborting"
                                             ELSE IF @ = "open" THEN "closing" ELSE @]
  /\ haWs' = 0
  /\ haAuthenticated' = FALSE
  /\ pendingResponses' = {}
  /\ haDisconnectCalled' = TRUE

\* the requests the hub will never answer once socket s is gone
DropSentOn(s) == [i \in MsgIds |-> IF rpc[i].sentOn = s THEN [rpc[i] EXCEPT !.sentOn = 0] ELSE rpc[i]]

\* HelmBridge.start up to the first await on wsClient.connect(): the cloud URL
\* probe (a POST for the bridge id 'test-validation', of which only the content
\* type is looked at) changes nothing; a failed REST probe ends the process
Start ==
  /\ pcStart = "init"
  /\ \/ /\ haConnect
        /\ pcStart' = "hub_connect"
        /\ startSock' = FreeSlot(haSock, HubSlots)
        /\ lastAct' = "Start"
     \/ /\ pcStart' = "exited"
        /\ UNCHANGED <<haSock, haWs, startSock>>
        /\ lastAct' = "StartProbeFailed"
  /\ UNCHANGED <<haSrv, haAuthenticated, eventSubscriptionId, subscribedOn, haReconnectAttempts,
                 haReconnectTimer, haShouldReconnect, hubDelays, haAuthFailedEmitted,
                 haAuthInvalidSeen, haDisconnectCalled>>
  /\ UNCHANGED <<rpcVars, cloudVars, credVars, cmdVars>>
  /\ UNCHANGED batchVars
  /\ UNCHANGED pairVars
  /\ UNCHANGED syncVars
  /\ UNCHANGED serverVars

\* 'open' on hub socket s
HubSocketOpen(s) ==
  /\ Alive
  /\ haSock[s] = "connecting"
  /\ haSock' = [haSock EXCEPT ![s] = "open"]
  /\ haReconnectAttempts' = 0
  /\ hubDelays' = <<>>
  /\ lastAct' = "HubSocketOpen"
  /\ UNCHANGED <<haWs, haSrv, haAuthenticated, eventSubscriptionId, subscribedOn, haReconnectTimer,
                 haShouldReconnect, haAuthFailedEmitted, haAuthInvalidSeen, haDisconnectCalled>>
  /\ UNCHANGED <<startVars, rpcVars, cloudVars, credVars, cmdVars>>
  /\ UNCHANGED batchVars
  /\ UNCHANGED pairVars
  /\ UNCHANGED syncVars
  /\ UNCHANGED serverVars

\* 'error' then 'close' on a hub socket that never opened: the error handler
\* rejects the connect() promise (start() then ends the process), and the close
\* handler runs
HubConnectFail(s) ==
  /\ Alive
  /\ haSock[s] \in {"connecting", "aborting"}
  /\ haSock' = [haSock EXCEPT ![s] = "free"]
  /\ haSrv' = [haSrv EXCEPT ![s] = "none"]
  /\ haOnClose
  /\ IF s = startSock /\ pcStart = "hub_connect"
     THEN pcStart' = "exited" /\ startSock' = 0
     ELSE pcStart' = pcStart /\ startSock' = IF s = startSock THEN 0 ELSE startSock
  /\ lastAct' = "HubConnectFail"
  /\ UNCHANGED <<haWs, haShouldReconnect, haAuthFailedEmitted, haAuthInvalidSeen,
                 haDisconnectCalled>>
  /\ UNCHANGED <<rpcVars, cloudVars, credVars, cmdVars>>
  /\ UNCHANGED batchVars
  /\ UNCHANGED pairVars
  /\ UNCHANGED syncVars
  /\ UNCHANGED serverVars

\* 'close' on a hub socket that was open
HubSocketClose(s) ==
  /\ Alive
  /\ haSock[s] \in {"open", "closing"}
  /\ haSock' = [haSock EXCEPT ![s] = "free"]
  /\ haSrv' = [haSrv EXCEPT ![s] = "none"]
  /\ haOnClose
  /\ rpc' = DropSentOn(s)
  /\ startSock' = IF s = startSock THEN 0 ELSE startSock
  /\ lastAct' = "HubSocketClose"
  /\ UNCHANGED <<haWs, haShouldReconnect, haAuthFailedEmitted, haAuthInvalidSeen,
                 haDisconnectCalled>>
  /\ UNCHANGED <<pcStart, messageId, pendingResponses, cloudVars, credVars, cmdVars>>
  /\ UNCHANGED batchVars
  /\ UNCHANGED pairVars
  /\ UNCHANGED syncVars
  /\ UNCHANGED serverVars

\* the reconnect timer fires: connect()
HubReconnectTimer ==
  /\ Alive
  /\ haReconnectTimer # 0
  /\ haReconnectTimer' = 0
  /\ haConnect
  /\ lastAct' = "HubReconnectTimer"
  /\ UNCHANGED <<haSrv, haAuthenticated, eventSubscriptionId, subscribedOn, haReconnectAttempts,
                 haShouldReconnect, hubDelays, haAuthFailedEmitted, haAuthInvalidSeen,
                 haDisconnectCalled>>
  /\ UNCHANGED <<startVars, rpcVars, cloudVars, credVars, cmdVars>>
  /\ UNCHANGED batchVars
  /\ UNCHANGED pairVars
  /\ UNCHANGED syncVars
  /\ UNCHANGED serverVars


\* ---- hub session: inbound frames ----------------------------------------
\* an auth_ok handler that writes no subscribe_events frame
SubscribeFrameNone == NoRpc

\* the frame subscribeToEvents writes under id
SubscribeFrame == [owner |-> "subscribe", cmd |-> 0, promise |-> "none", calls |-> 0,
                   timer |-> FALSE, sentOn |-> IF haCanSend THEN haWs ELSE 0]

\* auth_required on socket s: sendAuth writes the token on this.ws
HubAuthRequired(s) ==
  /\ Alive
  /\ haSock[s] = "open"
  /\ haSrv[s] = "none"
  /\ haSrv' = IF haCanSend
              THEN [[haSrv EXCEPT ![s] = "asked"] EXCEPT ![haWs] = "got_auth"]
              ELSE [haSrv EXCEPT ![s] = "asked"]
  /\ lastAct' = "HubAuthRequired"
  /\ UNCHANGED <<haSock, haWs, haAuthenticated, eventSubscriptionId, subscribedOn, haReconnectAttempts,
                 haReconnectTimer, haShouldReconnect, hubDelays, haAuthFailedEmitted,
                 haAuthInvalidSeen, haDisconnectCalled>>
  /\ UNCHANGED <<startVars, rpcVars, cloudVars, credVars, cmdVars>>
  /\ UNCHANGED batchVars
  /\ UNCHANGED pairVars
  /\ UNCHANGED syncVars
  /\ UNCHANGED serverVars

\* auth_ok on socket s: authenticated, subscribeToEvents, connect() resolves;
\* when start() awaits this connect() it goes on to getEntities()
HubAuthOk(s) ==
  /\ Alive
  /\ haSock[s] = "open"
  /\ haSrv[s] = "got_auth"
  /\ haSrv' = [haSrv EXCEPT ![s] = "authed"]
  /\ haAuthenticated' = TRUE
  /\ eventSubscriptionId' = messageId
  /\ subscribedOn' = SubscribeFrame.sentOn
  /\ messageId <= MaxMsgId
  /\ IF s = startSock /\ pcStart = "hub_connect"
     THEN /\ IssueRpc([rpc EXCEPT ![messageId] = SubscribeFrame], pendingResponses,
                      messageId + 1, "getEntities", 0)
          /\ pcStart' = "get_entities"
     ELSE /\ rpc' = [rpc EXCEPT ![messageId] = SubscribeFrame]
          /\ messageId' = messageId + 1
          /\ UNCHANGED <<pendingResponses, pcStart>>
  /\ lastAct' = "HubAuthOk"
  /\ UNCHANGED <<haSock, haWs, haReconnectAttempts, haReconnectTimer, haShouldReconnect,
                 hubDelays, haAuthFailedEmitted, haAuthInvalidSeen, haDisconnectCalled>>
  /\ UNCHANGED <<startSock, cloudVars, credVars, cmdVars>>
  /\ UNCHANGED batchVars
  /\ UNCHANGED pairVars
  /\ UNCHANGED syncVars
  /\ UNCHANGED serverVars

\* auth_invalid on socket s: 'auth_failed' is emitted and connect() rejects;
\* when start() awaits this connect() the process ends
HubAuthInvalid(s) ==
  /\ Alive
  /\ haSock[s] = "open"
  /\ haSrv[s] = "got_auth"
  /\ haSrv' = [haSrv EXCEPT ![s] = "rejected"]
  /\ haAuthFailedEmitted' = TRUE
  /\ haAuthInvalidSeen' = TRUE
  /\ pcStart' = IF s = startSock /\ pcStart = "hub_connect" THEN "exited" ELSE pcStart
  /\ lastAct' = "HubAuthInvalid"
  /\ UNCHANGED <<haSock, haWs, haAuthenticated, eventSubscriptionId, subscribedOn, haReconnectAttempts,
                 haReconnectTimer, haShouldReconnect, hubDelays, haDisconnectCalled>>
  /\ UNCHANGED <<startSock, rpcVars, cloudVars, credVars, cmdVars>>
  /\ UNCHANGED batchVars
  /\ UNCHANGED pairVars
  /\ UNCHANGED syncVars
  /\ UNCHANGED serverVars

\* a result frame for request id, on the socket the request was written to
HubResult(id, success) ==
  /\ Alive
  /\ rpc[id].sentOn # 0
  /\ haSock[rpc[id].sentOn] = "open"
  /\ handleResult(id, success)
  /\ lastAct' = "HubResult"
  /\ UNCHANGED <<hubVars, startSock, cloudSrv, cloudAuthenticated, cloudReconnectAttempts,
                 cloudReconnectTimer, cloudShouldReconnect, heartbeatTimer, tickers, cloudHist,
                 credVars, cmdFrames, lastCmd>>
  /\ UNCHANGED batchVars
  /\ startPath' = PathTaken
  /\ UNCHANGED <<pollAttempts, pollTimer, pcPoll, pollSock, statusRequests, srvCode, srvCred,
                 pairedSeen, loopEnded>>
  /\ syncEffect(id, IF success THEN "fulfilled" ELSE "rejected")
  /\ UNCHANGED syncCount
  /\ UNCHANGED serverVars

\* the 30 s timer of request id fires
CommandTimeout(id) ==
  /\ Alive
  /\ rpc[id].timer
  /\ commandTimeout(id)
  /\ lastAct' = "CommandTimeout"
  /\ UNCHANGED <<hubVars, startSock, cloudSrv, cloudAuthenticated, cloudReconnectAttempts,
                 cloudReconnectTimer, cloudShouldReconnect, heartbeatTimer, tickers, cloudHist,
                 credVars, cmdFrames, lastCmd>>
  /\ UNCHANGED batchVars
  /\ startPath' = PathTaken
  /\ UNCHANGED <<pollAttempts, pollTimer, pcPoll, pollSock, statusRequests, srvCode, srvCred,
                 pairedSeen, loopEnded>>
  /\ syncEffect(id, "timeout")
  /\ UNCHANGED syncCount
  /\ UNCHANGED serverVars


\* ---- credential store and the auth_result error text --------------------
\* CredentialStore.clear throws, before dropping the in-memory copy, when the
\* file exists and unlinkSync fails
ClearThrows(unlinkFails) == credFile # NoCred /\ unlinkFails

\* CredentialStore.clear
clear(unlinkFails) ==
  /\ clearedSince' = TRUE
  /\ IF ClearThrows(unlinkFails)
     THEN UNCHANGED <<credentials, credFile>>
     ELSE /\ credentials' = NoCred
          /\ credFile' = NoCred

\* error texts of auth_result, as word sequences; <<>> is an absent error field
ErrorTexts == { <<"Invalid", "or", "revoked", "credential">>, <<"Credential", "REVOKED">>,
                <<"Server", "unavailable">>, <<>> }

\* the one error text handleAuth of the cloud sends
ServerAuthError == <<"Invalid", "or", "revoked", "credential">>

toLowerCase(w) ==
  CASE w = "Invalid" -> "invalid"
    [] w = "REVOKED" -> "revoked"
    [] w = "Credential" -> "credential"
    [] w = "Server" -> "server"
    [] OTHER -> w

includes(text, w) == \E i \in 1..Len(text) : text[i] = w

\* handleAuthResult: error.toLowerCase().includes('revoked') || ...includes('invalid')
IndicatesRevocation(msgError) ==
  LET error == IF msgError = <<>> THEN <<"Unknown", "error">> ELSE msgError
      lower == [i \in 1..Len(error) |-> toLowerCase(error[i])]
  IN  includes(lower, "revoked") \/ includes(lower, "invalid")

\* the file after a write that failed part-way: a prefix of the JSON text
Truncated == [truncated |-> TRUE]

\* CredentialStore.load: no file or unparsable text leaves null
load(file) == IF file = NoCred \/ file = Truncated THEN NoCred ELSE file

\* how the file operations of save() end: mkdirSync or the open fails, or
\* writeFileSync fails after the file was truncated and partly written
SaveOutcomes == {"ok", "throws_before_write", "write_fails_partway"}

\* a save that sets the in-memory copy and never writes the file
saveMemoryOnly(c, outcome) ==
  /\ credFile' = credFile
  /\ credentials' = IF outcome = "ok" THEN c ELSE credentials
  /\ clearedSince' = IF outcome = "ok" THEN FALSE ELSE clearedSince

\* CredentialStore.save: the file first, the in-memory copy only after it
save(c, outcome) ==
  /\ credFile' = IF outcome = "ok" THEN c
                 ELSE IF outcome = "write_fails_partway" THEN Truncated
                 ELSE credFile
  /\ credentials' = IF outcome = "ok" THEN c ELSE credentials
  /\ clearedSince' = IF outcome = "ok" THEN FALSE ELSE clearedSince

\* ---- pairing coordinator: the polling loop's exits -----------------------
\* a tail of poll() that never arms another timeout
PollAgainNever ==
  /\ pollTimer' = 0
  /\ pcPoll' = "ended"
  /\ loopEnded' = TRUE

\* the tail of poll(): another timeout below the attempt cap, else the loop ends
PollAgain ==
  IF pollAttempts < maxAttempts
  THEN /\ pollTimer' = pollInterval
       /\ pcPoll' = "waiting"
       /\ UNCHANGED loopEnded
  ELSE /\ pollTimer' = 0
       /\ pcPoll' = "ended"
       /\ loopEnded' = TRUE

\* the connect() promise of socket s settles: poll() returns when it resolves
\* and its catch block runs when it rejects; when handleAuthResult throws
\* (clear() failed) neither resolve nor reject is called
PollConnectSettled(s, success, rejectSkipped) ==
  IF s = pollSock /\ pcPoll = "connecting" /\ (success \/ ~rejectSkipped)
  THEN /\ pollSock' = 0
       /\ IF success
          THEN /\ pcPoll' = "ended"
               /\ UNCHANGED <<pollTimer, loopEnded>>
          ELSE PollAgain
  ELSE UNCHANGED <<pollSock, pcPoll, pollTimer, loopEnded>>

\* ---- cloud session: connection lifecycle --------------------------------
\* CloudClient.stopHeartbeat: the interval held in heartbeatTimer is cleared
stopHeartbeat ==
  /\ heartbeatTimer' = FALSE
  /\ tickers' = IF heartbeatTimer THEN tickers - 1 ELSE tickers

\* CloudClient.startHeartbeat: stopHeartbeat, then a new interval
startHeartbeat ==
  /\ heartbeatTimer' = TRUE
  /\ tickers' = (IF heartbeatTimer THEN tickers - 1 ELSE tickers) + 1

\* CloudClient.scheduleReconnect
cloudScheduleReconnect ==
  IF cloudReconnectAttempts >= maxReconnectAttempts
  THEN /\ cloudReconnectTimer' = 0
       /\ UNCHANGED <<cloudReconnectAttempts, cloudDelays>>
  ELSE /\ cloudReconnectTimer' = CloudDelay(cloudReconnectAttempts)
       /\ cloudReconnectAttempts' = cloudReconnectAttempts + 1
       /\ cloudDelays' = Append(cloudDelays, CloudDelay(cloudReconnectAttempts))

\* the 'close' handler installed by CloudClient.connect
cloudOnClose ==
  /\ cloudAuthenticated' = FALSE
  /\ stopHeartbeat
  /\ IF cloudShouldReconnect
     THEN cloudScheduleReconnect
     ELSE UNCHANGED <<cloudReconnectTimer, cloudReconnectAttempts, cloudDelays>>

\* CloudClient.disconnect
cloudDisconnect ==
  /\ cloudShouldReconnect' = FALSE
  /\ cloudReconnectTimer' = 0
  /\ stopHeartbeat
  /\ cloudSock' = IF cloudWs = 0 THEN cloudSock
                  ELSE [cloudSock EXCEPT ![cloudWs] = IF @ = "connecting" THEN "aborting"
                                                      ELSE IF @ = "open" THEN "closing" ELSE @]
  /\ cloudWs' = 0
  /\ cloudAuthenticated' = FALSE

\* 'open' on cloud socket s: the attempt counter is reset and sendAuth writes
\* authenticate on this.ws when a credential is resident
CloudSocketOpen(s) ==
  /\ Alive
  /\ cloudSock[s] = "connecting"
  /\ cloudSock' = [cloudSock EXCEPT ![s] = "open"]
  /\ cloudReconnectAttempts' = 0
  /\ cloudSrv' = IF credentials # NoCred /\ cloudWs # 0 /\ cloudSock'[cloudWs] = "open"
                 THEN [cloudSrv EXCEPT ![cloudWs] = "requested"]
                 ELSE cloudSrv
  /\ cloudDelays' = <<>>
  /\ lastAct' = "CloudSocketOpen"
  /\ UNCHANGED <<cloudWs, cloudAuthenticated, cloudReconnectTimer, cloudShouldReconnect,
                 heartbeatTimer, tickers, revokedSeen, disconnectSeen>>
  /\ UNCHANGED <<startVars, hubVars, rpcVars, credVars, cmdVars>>
  /\ UNCHANGED batchVars
  /\ UNCHANGED pairVars
  /\ UNCHANGED syncVars
  /\ UNCHANGED serverVars

\* 'error' then 'close' on a cloud socket that never opened
CloudConnectFail(s) ==
  /\ Alive
  /\ cloudSock[s] \in {"connecting", "aborting"}
  /\ cloudSock' = [cloudSock EXCEPT ![s] = "free"]
  /\ cloudSrv' = [cloudSrv EXCEPT ![s] = "none"]
  /\ cloudOnClose
  /\ lastAct' = "CloudConnectFail"
  /\ UNCHANGED <<cloudWs, cloudShouldReconnect, revokedSeen, disconnectSeen>>
  /\ UNCHANGED <<startVars, hubVars, rpcVars, credVars, cmdVars>>
  /\ UNCHANGED batchVars
  /\ pollSock' = IF s = pollSock THEN 0 ELSE pollSock
  /\ UNCHANGED <<pollAttempts, pollTimer, pcPoll, statusRequests, srvCode, srvCred,
                 pairedSeen, loopEnded, startPath>>
  /\ UNCHANGED syncVars
  /\ UNCHANGED serverVars

\* 'close' on a cloud socket that was open
CloudSocketClose(s) ==
  /\ Alive
  /\ cloudSock[s] \in {"open", "closing"}
  /\ cloudSock' = [cloudSock EXCEPT ![s] = "free"]
  /\ cloudSrv' = [cloudSrv EXCEPT ![s] = "none"]
  /\ cloudOnClose
  /\ lastAct' = "CloudSocketClose"
  /\ UNCHANGED <<cloudWs, cloudShouldReconnect, revokedSeen, disconnectSeen>>
  /\ UNCHANGED <<startVars, hubVars, rpcVars, credVars, cmdVars>>
  /\ UNCHANGED batchVars
  /\ pollSock' = IF s = pollSock THEN 0 ELSE pollSock
  /\ UNCHANGED <<pollAttempts, pollTimer, pcPoll, statusRequests, srvCode, srvCred,
                 pairedSeen, loopEnded, startPath>>
  /\ UNCHANGED syncVars
  /\ UNCHANGED serverVars

\* the cloud reconnect timer fires: connect()
CloudReconnectTimer ==
  /\ Alive
  /\ cloudReconnectTimer # 0
  /\ cloudReconnectTimer' = 0
  /\ cloudConnect
  /\ lastAct' = "CloudReconnectTimer"
  /\ UNCHANGED <<cloudSrv, cloudAuthenticated, cloudReconnectAttempts, cloudShouldReconnect,
                 heartbeatTimer, tickers, cloudHist>>
  /\ UNCHANGED <<startVars, hubVars, rpcVars, credVars, cmdVars>>
  /\ UNCHANGED batchVars
  /\ UNCHANGED pairVars
  /\ UNCHANGED syncVars
  /\ UNCHANGED serverVars

\* HelmBridge.connectToCloud called on a paired bridge (it throws otherwise)
ConnectToCloud ==
  /\ Alive
  /\ isPaired(credentials)
  /\ cloudConnect
  /\ lastAct' = "ConnectToCloud"
  /\ UNCHANGED <<cloudSrv, cloudAuthenticated, cloudReconnectAttempts, cloudReconnectTimer,
                 cloudShouldReconnect, heartbeatTimer, tickers, cloudHist>>
  /\ UNCHANGED <<startVars, hubVars, rpcVars, credVars, cmdVars>>
  /\ UNCHANGED batchVars
  /\ UNCHANGED pairVars
  /\ UNCHANGED syncVars
  /\ UNCHANGED serverVars


\* ---- cloud session: inbound frames --------------------------------------
\* handleAuthResult on socket s
CloudAuthResult(s, success, msgError, unlinkFails) ==
  /\ Alive
  /\ cloudSock[s] = "open"
  /\ cloudSrv[s] = "requested"
  /\ IF success
     THEN /\ cloudSrv' = [cloudSrv EXCEPT ![s] = "authed"]
          /\ cloudAuthenticated' = TRUE
          /\ startHeartbeat
          /\ lastAct' = "CloudAuthOk"
          /\ UNCHANGED <<cloudShouldReconnect, cloudHist, credVars>>
     ELSE /\ cloudSrv' = [cloudSrv EXCEPT ![s] = "rejected"]
          /\ lastAct' = "CloudAuthFailed"
          /\ UNCHANGED <<cloudAuthenticated, heartbeatTimer, tickers>>
          /\ IF IndicatesRevocation(msgError)
             THEN /\ revokedSeen' = TRUE /\ UNCHANGED <<disconnectSeen, cloudDelays>>
                  /\ clear(unlinkFails)
                  /\ cloudShouldReconnect' =
                       IF ClearThrows(unlinkFails) THEN cloudShouldReconnect ELSE FALSE
             ELSE UNCHANGED <<cloudShouldReconnect, cloudHist, credVars>>
  /\ UNCHANGED <<cloudSock, cloudWs, cloudReconnectAttempts, cloudReconnectTimer>>
  /\ UNCHANGED <<startVars, hubVars, rpcVars, cmdVars>>
  /\ UNCHANGED batchVars
  /\ PollConnectSettled(s, success, IndicatesRevocation(msgError) /\ ClearThrows(unlinkFails))
  /\ UNCHANGED <<pollAttempts, statusRequests, srvCode, srvCred, pairedSeen, startPath>>
  /\ UNCHANGED syncVars
  /\ UNCHANGED serverVars

\* a command frame on socket s: handleCommand acks when asked to, then
\* handleCloudCommand calls the hub; callService rejects at once when the hub
\* session is not authenticated.  expired: the frame's ttlMs has run out since
\* its issuedAt when it arrives.  The handlers read neither commandType nor
\* ttlMs nor issuedAt
CloudCommand(s, cmdId, requiresAck, commandType, expired) ==
  /\ Alive
  /\ lastCmd' = [cmdId |-> cmdId, commandType |-> commandType, expired |-> expired]
  /\ cloudSock[s] = "open"
  /\ cloudSrv[s] = "authed"
  /\ cmdFrames < MaxCmdFrames
  /\ cmdFrames' = cmdFrames + 1
  /\ LET acked == IF requiresAck THEN CommandAckOut(cloudOut, cmdId) ELSE cloudOut
     IN  IF haAuthenticated
         THEN /\ IssueRpc(rpc, pendingResponses, messageId, "call_service", cmdId)
              /\ cloudOut' = acked
         ELSE /\ cloudOut' = CommandResultOut(acked, cmdId, "failed")
              /\ UNCHANGED rpcVars
  /\ lastAct' = "CloudCommand"
  /\ UNCHANGED <<startVars, hubVars, cloudVars, credVars>>
  /\ UNCHANGED batchVars
  /\ UNCHANGED pairVars
  /\ UNCHANGED syncVars
  /\ UNCHANGED serverVars

DisconnectReasons == {"user_disconnected", "user_reset", "server_shutdown"}

\* a disconnect frame on socket s
CloudDisconnectFrame(s, reason, unlinkFails) ==
  /\ Alive
  /\ cloudSock[s] = "open"
  /\ cloudSrv[s] = "authed"
  /\ IF reason \in {"user_disconnected", "user_reset"}
     THEN /\ clear(unlinkFails)
          /\ IF ClearThrows(unlinkFails)
             THEN /\ cloudShouldReconnect' = FALSE
                  /\ UNCHANGED <<cloudSock, cloudWs, cloudAuthenticated, cloudReconnectTimer,
                                 heartbeatTimer, tickers>>
             ELSE cloudDisconnect
     ELSE /\ cloudDisconnect
          /\ UNCHANGED credVars
  /\ lastAct' = "CloudDisconnectFrame"
  /\ UNCHANGED <<cloudSrv, cloudReconnectAttempts, revokedSeen>>
  /\ disconnectSeen' = reason
  /\ UNCHANGED cloudDelays
  /\ UNCHANGED <<startVars, hubVars, rpcVars, cmdVars>>
  /\ UNCHANGED batchVars
  /\ UNCHANGED pairVars
  /\ UNCHANGED syncVars
  /\ UNCHANGED serverVars

\* a request_full_sync frame on socket s: performFullSync.  The five calls are
\* made in one go; each rejects at once when the hub session is not
\* authenticated, and then the frame goes out in the same turn
RequestFullSync(s) ==
  /\ Alive
  /\ cloudSock[s] = "open"
  /\ cloudSrv[s] = "authed"
  /\ syncCount < MaxSyncs
  /\ syncCount' = syncCount + 1
  /\ LET k == syncCount + 1
         failed == [c \in Collections |-> "failed"]
     IN  IF haAuthenticated
         THEN /\ messageId + Len(CallOrder) - 1 <= MaxMsgId
              /\ rpc' = [i \in MsgIds |->
                           IF i \in messageId..(messageId + Len(CallOrder) - 1)
                           THEN [owner |-> CallOrder[i - messageId + 1], cmd |-> k,
                                 promise |-> "pending", calls |-> 0, timer |-> TRUE,
                                 sentOn |-> IF haCanSend THEN haWs ELSE 0]
                           ELSE rpc[i]]
              /\ pendingResponses' = pendingResponses \cup messageId..(messageId + Len(CallOrder) - 1)
              /\ messageId' = messageId + Len(CallOrder)
              /\ syncRes' = [syncRes EXCEPT ![k] = [c \in Collections |-> "pending"]]
              /\ UNCHANGED syncOut
         ELSE /\ syncRes' = [syncRes EXCEPT ![k] = failed]
              /\ syncOut' = FullSyncOut(syncOut, k, failed)
              /\ UNCHANGED rpcVars
  /\ lastAct' = "RequestFullSync"
  /\ UNCHANGED <<startVars, hubVars, cloudVars, credVars, cmdVars, batchVars, pairVars>>
  /\ UNCHANGED serverVars

\* ---- pairing coordinator -------------------------------------------------
\* the bridge id of the configuration, echoed by the cloud
BridgeId == "helm-bridge-abcd1234"

\* the response to the POST of requestAndDisplayPairingCode arrives: with a code
\* the polling loop is launched, otherwise the failure is logged
PairingCodeResponse(ok) ==
  /\ Alive
  /\ pcStart = "request_code"
  /\ pcStart' = "done"
  /\ IF ok
     THEN /\ srvCode' = "pending"
          /\ pollAttempts' = 0
          /\ pollTimer' = pollInterval
          /\ pcPoll' = "waiting"
     ELSE UNCHANGED <<srvCode, pollAttempts, pollTimer, pcPoll>>
  /\ lastAct' = "PairingCodeResponse"
  /\ UNCHANGED <<pollSock, statusRequests, srvCred, pairedSeen, loopEnded, startPath>>
  /\ UNCHANGED <<startSock, hubVars, rpcVars, cloudVars, credVars, cmdVars, batchVars>>
  /\ UNCHANGED syncVars
  /\ UNCHANGED serverVars

\* cloud side, POST /pair: a user redeems the pending code
Redeem(bridgeCredential, tenantId) ==
  /\ Alive
  /\ srvCode = "pending"
  /\ srvCode' = "used"
  /\ srvCred' = [bridgeId |-> BridgeId, bridgeCredential |-> bridgeCredential,
                 tenantId |-> tenantId]
  /\ lastAct' = "Redeem"
  /\ UNCHANGED <<pollAttempts, pollTimer, pcPoll, pollSock, statusRequests, pairedSeen,
                 loopEnded, startPath>>
  /\ UNCHANGED <<startVars, hubVars, rpcVars, cloudVars, credVars, cmdVars, batchVars>>
  /\ UNCHANGED syncVars
  /\ UNCHANGED serverVars

\* cloud side: the expiry time of the unredeemed code passes
ExpireCode ==
  /\ Alive
  /\ srvCode = "pending"
  /\ srvCode' = "expired"
  /\ lastAct' = "ExpireCode"
  /\ UNCHANGED <<pollAttempts, pollTimer, pcPoll, pollSock, statusRequests, srvCred,
                 pairedSeen, loopEnded, startPath>>
  /\ UNCHANGED <<startVars, hubVars, rpcVars, cloudVars, credVars, cmdVars, batchVars>>
  /\ UNCHANGED syncVars
  /\ UNCHANGED serverVars

\* poll() calls cloudClient.connect() with credential c resident and awaits it
PollConnect(c) ==
  /\ connect(c)
  /\ pollSock' = IF isPaired(c) THEN cloudWs' ELSE 0
  /\ pcPoll' = IF isPaired(c) THEN "connecting" ELSE "ended"
  /\ pollTimer' = 0

\* the poll timeout fires: poll() up to its first await
PollTimer ==
  /\ Alive
  /\ pollTimer # 0
  /\ pollAttempts' = pollAttempts + 1
  /\ IF isPaired(credentials)
     THEN /\ PollConnect(credentials)
          /\ UNCHANGED statusRequests
     ELSE /\ statusRequests' = statusRequests + 1
          /\ pcPoll' = "fetching"
          /\ pollTimer' = 0
          /\ UNCHANGED <<cloudSock, cloudWs, pollSock>>
  /\ lastAct' = "PollTimer"
  /\ UNCHANGED <<srvCode, srvCred, pairedSeen, loopEnded, startPath>>
  /\ UNCHANGED <<startVars, hubVars, rpcVars, cloudSrv, cloudAuthenticated,
                 cloudReconnectAttempts, cloudReconnectTimer, cloudShouldReconnect,
                 heartbeatTimer, tickers, cloudHist, credVars, cmdVars, batchVars>>
  /\ UNCHANGED syncVars
  /\ UNCHANGED serverVars

\* what goes wrong between the bridge and the status endpoint
PollFaults == {"none", "transport_error", "non_json", "http_404", "http_500"}

\* GET /pairing-codes/:code/status on the cloud
StatusBody ==
  CASE srvCode = "pending" -> [status |-> "pending"]
    [] srvCode = "expired" -> [status |-> "expired"]
    [] srvCode = "used" -> [status |-> "paired", bridgeCredential |-> srvCred.bridgeCredential,
                            tenantId |-> srvCred.tenantId, bridgeId |-> srvCred.bridgeId]
    [] OTHER -> [status |-> "paired"]

\* a claimed answer handled like a pending one: another poll timeout is armed
AlreadyClaimedPollsOn ==
  IF isPaired(credentials)
  THEN PollConnect(credentials)
  ELSE /\ pollTimer' = pollInterval
       /\ pcPoll' = "waiting"
       /\ UNCHANGED <<cloudSock, cloudWs, pollSock>>

\* poll(): the answer is paired without a credential; connect when the store
\* is populated, else log the restart message and return
AlreadyClaimed ==
  IF isPaired(credentials)
  THEN PollConnect(credentials)
  ELSE /\ pcPoll' = "ended"
       /\ UNCHANGED <<cloudSock, cloudWs, pollSock, pollTimer>>

\* the answer to the status request arrives: the rest of poll()
PollResponse(fault, saveOutcome) ==
  /\ Alive
  /\ pcPoll = "fetching"
  /\ srvCode # "none"
  /\ IF fault \in {"transport_error", "non_json", "http_500"}
     THEN /\ PollAgain
          /\ lastAct' = "PollFault"
          /\ UNCHANGED <<cloudSock, cloudWs, pollSock, credVars, srvCode, pairedSeen>>
     ELSE IF fault = "http_404"
     THEN /\ IF isPaired(credentials)
             THEN PollConnect(credentials) /\ UNCHANGED loopEnded
             ELSE PollAgain /\ UNCHANGED <<cloudSock, cloudWs, pollSock>>
          /\ lastAct' = "PollNotFound"
          /\ UNCHANGED <<credVars, srvCode, pairedSeen>>
     ELSE IF StatusBody.status = "paired" /\ srvCode = "used"
     THEN \* the cloud has marked the credential claimed
          /\ srvCode' = "claimed"
          /\ save([bridgeId |-> StatusBody.bridgeId, tenantId |-> StatusBody.tenantId,
                   bridgeCredential |-> StatusBody.bridgeCredential], saveOutcome)
          /\ IF saveOutcome = "ok"
             THEN /\ PollConnect(credentials')
                  /\ pairedSeen' = TRUE
                  /\ loopEnded' = TRUE
                  /\ lastAct' = "PollPaired"
             ELSE /\ PollAgain
                  /\ lastAct' = "PollPairedSaveFailed"
                  /\ UNCHANGED <<cloudSock, cloudWs, pollSock, pairedSeen>>
     ELSE IF StatusBody.status = "paired"
     THEN /\ AlreadyClaimed
          /\ lastAct' = "PollClaimed"
          /\ UNCHANGED <<credVars, srvCode, pairedSeen, loopEnded>>
     ELSE IF StatusBody.status = "expired"
     THEN /\ pcPoll' = "ended"
          /\ loopEnded' = TRUE
          /\ lastAct' = "PollExpired"
          /\ UNCHANGED <<cloudSock, cloudWs, pollSock, pollTimer, credVars, srvCode, pairedSeen>>
     ELSE /\ PollAgain
          /\ lastAct' = "PollPending"
          /\ UNCHANGED <<cloudSock, cloudWs, pollSock, credVars, srvCode, pairedSeen>>
  /\ UNCHANGED <<pollAttempts, statusRequests, srvCred, startPath>>
  /\ UNCHANGED <<startVars, hubVars, rpcVars, cloudSrv, cloudAuthenticated,
                 cloudReconnectAttempts, cloudReconnectTimer, cloudShouldReconnect,
                 heartbeatTimer, tickers, cloudHist, cmdVars, batchVars>>
  /\ UNCHANGED syncVars
  /\ UNCHANGED serverVars

\* ---- cloud session: heartbeats -----------------------------------------
\* number of heartbeat frames in a history of written frames
Beats(out) == Cardinality({i \in 1..Len(out) : out[i].type = "heartbeat"})

\* CloudClient.sendHeartbeat: nothing unless authenticated is set; the frame's
\* haConnected and cloudConnected are the literal true; send() writes it iff
\* this.ws is OPEN
HeartbeatOut(out) ==
  IF cloudAuthenticated /\ cloudCanSend
  THEN Append(out, [type |-> "heartbeat", cmdId |-> 0, status |-> "none",
                    haConnected |-> TRUE, cloudConnected |-> TRUE])
  ELSE out

\* an interval made by startHeartbeat fires
HeartbeatTick ==
  /\ Alive
  /\ tickers > 0
  /\ Beats(cloudOut) < MaxBeats
  /\ cloudOut' = HeartbeatOut(cloudOut)
  /\ lastAct' = "HeartbeatTick"
  /\ UNCHANGED <<startVars, hubVars, rpcVars, cloudVars, credVars, cmdFrames, lastCmd>>
  /\ UNCHANGED <<batchVars, pairVars, syncVars>>
  /\ UNCHANGED serverVars

\* a request_heartbeat frame arrives on cloud socket s
RequestHeartbeat(s) ==
  /\ Alive
  /\ cloudSock[s] = "open"
  /\ cloudSrv[s] = "authed"
  /\ Beats(cloudOut) < MaxBeats
  /\ cloudOut' = HeartbeatOut(cloudOut)
  /\ lastAct' = "RequestHeartbeat"
  /\ UNCHANGED <<startVars, hubVars, rpcVars, cloudVars, credVars, cmdFrames, lastCmd>>
  /\ UNCHANGED <<batchVars, pairVars, syncVars>>
  /\ UNCHANGED serverVars

\* ---- state batcher ------------------------------------------------------
\* CloudClient.isConnected
isConnected == cloudWs # 0 /\ cloudSock[cloudWs] = "open" /\ cloudAuthenticated

\* a map that emits the buffer newest first
MapEventsReversed(batch) ==
  [i \in 1..Len(batch) |-> [entityId |-> batch[Len(batch) + 1 - i].entity_id,
                            n |-> batch[Len(batch) + 1 - i].n]]

\* batch.map(...) of flushStateChanges: one outbound event per buffered event
MapEvents(batch) == [i \in 1..Len(batch) |-> [entityId |-> batch[i].entity_id, n |-> batch[i].n]]

\* the map dereferences e.data.new_state, which is null for a removed entity
MapThrows(batch) == \E i \in 1..Len(batch) : ~batch[i].new_state

\* flushStateChanges throws: a non-empty buffer is mapped for a connected cloud
FlushThrows == stateChangeQueue # <<>> /\ isConnected /\ MapThrows(stateChangeQueue)

\* a flush that leaves the buffer alone while the cloud is not connected
flushKeepsUnsent ==
  /\ batchTimer' = 0
  /\ IF stateChangeQueue = <<>> \/ ~isConnected \/ MapThrows(stateChangeQueue)
     THEN UNCHANGED <<stateChangeQueue, batchOut, discarded>>
     ELSE /\ stateChangeQueue' = <<>>
          /\ batchOut' = Append(batchOut, MapEvents(stateChangeQueue))
          /\ UNCHANGED discarded

\* HelmBridge.flushStateChanges, with CloudClient.sendStateBatch
flushStateChanges ==
  /\ batchTimer' = 0
  /\ stateChangeQueue' = <<>>
  /\ IF stateChangeQueue # <<>> /\ isConnected /\ ~MapThrows(stateChangeQueue)
     THEN batchOut' = Append(batchOut, MapEvents(stateChangeQueue))
     ELSE UNCHANGED batchOut
  /\ discarded' = IF stateChangeQueue # <<>> /\ ~isConnected
                  THEN discarded \cup {stateChangeQueue[i].n : i \in 1..Len(stateChangeQueue)}
                  ELSE discarded

\* localDb.recordStateChange is called for an event with a new_state and
\* throws when the INSERT fails
RecordThrows(new_state, insertFails) == new_state /\ insertFails

\* a state_changed event frame on hub socket s: HelmBridge.handleStateChange.
\* The event is pushed first; when recordStateChange throws, the rest of the
\* handler is skipped and the hub client's message handler catches the error
HubEvent(s, entity_id, new_state, insertFails) ==
  /\ Alive
  /\ haSock[s] = "open"
  /\ haSrv[s] = "authed"
  /\ evCount < MaxEvents
  /\ evCount' = evCount + 1
  /\ stateChangeQueue' = Append(stateChangeQueue,
                                [n |-> evCount + 1, entity_id |-> entity_id, new_state |-> new_state])
  /\ IF batchTimer = 0 /\ ~RecordThrows(new_state, insertFails)
     THEN /\ batchTimer' = batchIntervalMs
          /\ flushTimers' = flushTimers + 1
     ELSE UNCHANGED <<batchTimer, flushTimers>>
  /\ lastAct' = IF RecordThrows(new_state, insertFails) THEN "HubEventRecordFailed" ELSE "HubEvent"
  /\ UNCHANGED <<batchOut, discarded>>
  /\ UNCHANGED <<startVars, hubVars, rpcVars, cloudVars, credVars, cmdVars>>
  /\ UNCHANGED pairVars
  /\ UNCHANGED syncVars
  /\ UNCHANGED serverVars

\* the flush timeout fires; an exception in the callback ends the process
FlushTimer ==
  /\ Alive
  /\ flushTimers > 0
  /\ flushTimers' = flushTimers - 1
  /\ flushStateChanges
  /\ pcStart' = IF FlushThrows THEN "exited" ELSE pcStart
  /\ lastAct' = "FlushTimer"
  /\ UNCHANGED evCount
  /\ UNCHANGED <<startSock, hubVars, rpcVars, cloudVars, credVars, cmdVars>>
  /\ UNCHANGED pairVars
  /\ UNCHANGED syncVars
  /\ UNCHANGED serverVars

\* ---- orchestrator -------------------------------------------------------
\* HelmBridge.stop on a bridge whose start() has reached the hub connect: the
\* final flush when a timer is armed, then the two disconnects; when the flush
\* throws, stop() rejects in the signal handler and the process ends
Stop ==
  /\ Alive
  /\ pcStart # "init"
  /\ IF batchTimer # 0
     THEN /\ flushTimers' = flushTimers - 1
          /\ flushStateChanges
     ELSE UNCHANGED <<stateChangeQueue, batchTimer, flushTimers, batchOut, discarded>>
  /\ IF batchTimer # 0 /\ FlushThrows
     THEN /\ pcStart' = "exited"
          /\ UNCHANGED <<cloudSock, cloudWs, cloudAuthenticated, cloudReconnectTimer,
                         cloudShouldReconnect, heartbeatTimer, tickers>>
          /\ UNCHANGED <<haSock, haWs, haAuthenticated, haReconnectTimer, haShouldReconnect,
                         pendingResponses, haDisconnectCalled>>
     ELSE /\ cloudDisconnect
          /\ haDisconnect
          /\ UNCHANGED pcStart
  /\ lastAct' = "Stop"
  /\ UNCHANGED <<haSrv, eventSubscriptionId, subscribedOn, haReconnectAttempts, hubDelays,
                 haAuthFailedEmitted, haAuthInvalidSeen>>
  /\ UNCHANGED <<startSock, messageId, rpc, cloudSrv, cloudReconnectAttempts, cloudHist,
                 credVars, cmdVars, evCount>>
  /\ UNCHANGED pairVars
  /\ UNCHANGED syncVars
  /\ UNCHANGED serverVars

\* ---- cloud: the pairing endpoints ----------------------------------------
Reqs == 1..MaxReqs

\* req.user.id of the authenticated callers of POST /pair
Users == {7, 8}

\* no request has arrived under this number
NoReq == [kind |-> "none", pc |-> "idle", user |-> 0, cred |-> 0, resp |-> "none"]

\* the bridge variables, which the cloud's handlers do not touch
bridgeVars == <<startVars, hubVars, rpcVars, cloudVars, credVars, cmdVars, batchVars, pairVars,
                syncVars>>

\* request r moves to position pc
ReqAt(r, pc) == httpReq' = [httpReq EXCEPT ![r].pc = pc]

\* request r is answered
ReqDone(r, resp) == httpReq' = [httpReq EXCEPT ![r].pc = "done", ![r].resp = resp]

\* bridgeStorage.markPairingCodeUsed: the code's record with isUsed set
markPairingCodeUsed == [dbCode EXCEPT !.isUsed = TRUE]

\* bridgeStorage.revokeAllCredentials: every credential of the bridge revoked
revokeAllCredentials == [i \in 1..Len(dbCreds) |-> [dbCreds[i] EXCEPT !.isRevoked = TRUE]]

\* bridgeStorage.getUnclaimedCredential: the credentials of the bridge it can
\* return, those not yet claimed
getUnclaimedCredential == {c \in 1..Len(dbCreds) : ~dbCreds[c].isClaimed}

\* bridgeStorage.markCredentialClaimed: credential c with isClaimed set
markCredentialClaimed(c) == [dbCreds EXCEPT ![c].isClaimed = TRUE]

\* a POST /pair for the code arrives from user u and passes the rate limit,
\* the token check and the schema
PairArrives(r, u) ==
  /\ httpReq[r].kind = "none"
  /\ httpReq' = [httpReq EXCEPT ![r] = [NoReq EXCEPT !.kind = "pair", !.pc = "getPairingCode",
                                                     !.user = u]]
  /\ lastAct' = "PairArrives"
  /\ UNCHANGED <<dbCode, dbCreds, dbRegs, wsSrvVars, schedVars, bridgeVars>>

\* POST /pair: getPairingCode returns and the used and expiry checks run
PairGetPairingCode(r) ==
  /\ httpReq[r].kind = "pair"
  /\ httpReq[r].pc = "getPairingCode"
  /\ IF dbCode.isUsed THEN ReqDone(r, "already_used")
     ELSE IF dbCode.expired THEN ReqDone(r, "expired")
     ELSE ReqAt(r, "getBridgeRegistration")
  /\ lastAct' = "PairGetPairingCode"
  /\ UNCHANGED <<dbCode, dbCreds, dbRegs, wsSrvVars, schedVars, bridgeVars>>

\* POST /pair: getBridgeRegistration returns
PairGetBridgeRegistration(r) ==
  /\ httpReq[r].kind = "pair"
  /\ httpReq[r].pc = "getBridgeRegistration"
  /\ IF httpReq[r].user \in dbRegs
     THEN ReqAt(r, "revokeAllCredentials")
     ELSE ReqAt(r, "markPairingCodeUsed")
  /\ lastAct' = "PairGetBridgeRegistration"
  /\ UNCHANGED <<dbCode, dbCreds, dbRegs, wsSrvVars, schedVars, bridgeVars>>

\* POST /pair: revokeAllCredentials of the registered bridge returns
PairRevokeAllCredentials(r) ==
  /\ httpReq[r].kind = "pair"
  /\ httpReq[r].pc = "revokeAllCredentials"
  /\ dbCreds' = revokeAllCredentials
  /\ ReqAt(r, "markPairingCodeUsed")
  /\ lastAct' = "PairRevokeAllCredentials"
  /\ UNCHANGED <<dbCode, dbRegs, wsSrvVars, schedVars, bridgeVars>>

\* POST /pair: markPairingCodeUsed returns
PairMarkPairingCodeUsed(r) ==
  /\ httpReq[r].kind = "pair"
  /\ httpReq[r].pc = "markPairingCodeUsed"
  /\ dbCode' = markPairingCodeUsed
  /\ ReqAt(r, "upsertBridgeRegistration")
  /\ lastAct' = "PairMarkPairingCodeUsed"
  /\ UNCHANGED <<dbCreds, dbRegs, wsSrvVars, schedVars, bridgeVars>>

\* POST /pair: upsertBridgeRegistration returns
PairUpsertBridgeRegistration(r) ==
  /\ httpReq[r].kind = "pair"
  /\ httpReq[r].pc = "upsertBridgeRegistration"
  /\ dbRegs' = dbRegs \cup {httpReq[r].user}
  /\ ReqAt(r, "createBridgeCredential")
  /\ lastAct' = "PairUpsertBridgeRegistration"
  /\ UNCHANGED <<dbCode, dbCreds, wsSrvVars, schedVars, bridgeVars>>

\* POST /pair: createBridgeCredential returns; the credential made by request
\* r is the next record
PairCreateBridgeCredential(r) ==
  /\ httpReq[r].kind = "pair"
  /\ httpReq[r].pc = "createBridgeCredential"
  /\ dbCreds' = Append(dbCreds, [userId |-> httpReq[r].user, isClaimed |-> FALSE,
                                  isRevoked |-> FALSE])
  /\ httpReq' = [httpReq EXCEPT ![r].pc = "createAuditEntry", ![r].cred = Len(dbCreds) + 1]
  /\ lastAct' = "PairCreateBridgeCredential"
  /\ UNCHANGED <<dbCode, dbRegs, wsSrvVars, schedVars, bridgeVars>>

\* POST /pair: createAuditEntry returns and the success body is sent
PairRespond(r) ==
  /\ httpReq[r].kind = "pair"
  /\ httpReq[r].pc = "createAuditEntry"
  /\ ReqDone(r, "success")
  /\ lastAct' = "PairRespond"
  /\ UNCHANGED <<dbCode, dbCreds, dbRegs, wsSrvVars, schedVars, bridgeVars>>

\* a GET /pairing-codes/:code/status for the code arrives
StatusArrives(r) ==
  /\ httpReq[r].kind = "none"
  /\ httpReq' = [httpReq EXCEPT ![r] = [NoReq EXCEPT !.kind = "status", !.pc = "getPairingCode"]]
  /\ lastAct' = "StatusArrives"
  /\ UNCHANGED <<dbCode, dbCreds, dbRegs, wsSrvVars, schedVars, bridgeVars>>

\* status: getPairingCode returns; an unused code is answered at once
StatusGetPairingCode(r) ==
  /\ httpReq[r].kind = "status"
  /\ httpReq[r].pc = "getPairingCode"
  /\ IF ~dbCode.isUsed
     THEN ReqDone(r, IF dbCode.expired THEN "expired" ELSE "pending")
     ELSE ReqAt(r, "getUnclaimedCredential")
  /\ lastAct' = "StatusGetPairingCode"
  /\ UNCHANGED <<dbCode, dbCreds, dbRegs, wsSrvVars, schedVars, bridgeVars>>

\* status: getUnclaimedCredential returns credential c, or none (c = 0)
StatusGetUnclaimedCredential(r, c) ==
  /\ httpReq[r].kind = "status"
  /\ httpReq[r].pc = "getUnclaimedCredential"
  /\ IF getUnclaimedCredential = {}
     THEN c = 0 /\ ReqDone(r, "paired")
     ELSE /\ c \in getUnclaimedCredential
          /\ httpReq' = [httpReq EXCEPT ![r].pc = "markCredentialClaimed", ![r].cred = c]
  /\ lastAct' = "StatusGetUnclaimedCredential"
  /\ UNCHANGED <<dbCode, dbCreds, dbRegs, wsSrvVars, schedVars, bridgeVars>>

\* status: markCredentialClaimed returns and the body with the raw credential
\* read before it is sent
StatusMarkCredentialClaimed(r) ==
  /\ httpReq[r].kind = "status"
  /\ httpReq[r].pc = "markCredentialClaimed"
  /\ dbCreds' = markCredentialClaimed(httpReq[r].cred)
  /\ ReqDone(r, "paired_with_credential")
  /\ lastAct' = "StatusMarkCredentialClaimed"
  /\ UNCHANGED <<dbCode, dbRegs, wsSrvVars, schedVars, bridgeVars>>

\* the expiry time of the code passes
CodeExpires ==
  /\ ~dbCode.expired
  /\ dbCode' = [dbCode EXCEPT !.expired = TRUE]
  /\ lastAct' = "CodeExpires"
  /\ UNCHANGED <<dbCreds, dbRegs, httpReq, wsSrvVars, schedVars, bridgeVars>>

\* a pairing code has been generated and no request for it has arrived
PairSrvInit ==
  /\ dbCode = [isUsed |-> FALSE, expired |-> FALSE]
  /\ dbCreds = <<>>
  /\ dbRegs = {}
  /\ httpReq = [r \in Reqs |-> NoReq]

\* ---- cloud: the bridge WebSocket server ---------------------------------
SrvConns == 1..MaxSrvConns

\* the bridgeId values of authenticate frames
SrvBridgeIds == {"bridge-a", "bridge-b"}

\* a connection slot not yet used; connectionState of a new connection has
\* authenticated false and no bridgeId
NoConn == [st |-> "none", authenticated |-> FALSE, bridgeId |-> "", validating |-> ""]

\* 'connection' on the WebSocket server
SrvConnection(c) ==
  /\ srvConn[c].st = "none"
  /\ srvConn' = [srvConn EXCEPT ![c].st = "open"]
  /\ lastAct' = "SrvConnection"
  /\ UNCHANGED <<connectedBridges, srvDelivered, pairSrvVars, schedVars, bridgeVars>>

\* an authenticate frame for bridgeId b arrives on connection c: handleAuth
\* up to its await of validateCredential
SrvAuthenticate(c, b) ==
  /\ srvConn[c].st = "open"
  /\ ~srvConn[c].authenticated
  /\ srvConn[c].validating = ""
  /\ srvConn' = [srvConn EXCEPT ![c].validating = b]
  /\ lastAct' = "SrvAuthenticate"
  /\ UNCHANGED <<connectedBridges, srvDelivered, pairSrvVars, schedVars, bridgeVars>>

\* validateCredential returns for connection c: without a credential the
\* failure is sent and the socket closed; with one, connectionState is filled
\* in and connectedBridges.set(bridgeId, state) runs
SrvCredentialValidated(c, valid) ==
  /\ srvConn[c].validating # ""
  /\ IF valid
     THEN /\ srvConn' = [srvConn EXCEPT ![c].authenticated = TRUE,
                                         ![c].bridgeId = srvConn[c].validating,
                                         ![c].validating = ""]
          /\ connectedBridges' = [connectedBridges EXCEPT ![srvConn[c].validating] = c]
     ELSE /\ srvConn' = [srvConn EXCEPT ![c].validating = "",
                                         ![c].st = IF @ = "open" THEN "closing" ELSE @]
          /\ UNCHANGED connectedBridges
  /\ lastAct' = IF valid THEN "SrvAuthOk" ELSE "SrvAuthRejected"
  /\ UNCHANGED <<srvDelivered, pairSrvVars, schedVars, bridgeVars>>

\* the 'close' handler of connection c: connectedBridges.delete(bridgeId) when
\* connectionState.bridgeId is set
SrvOnClose(c) ==
  IF srvConn[c].bridgeId # ""
  THEN connectedBridges' = [connectedBridges EXCEPT ![srvConn[c].bridgeId] = 0]
  ELSE UNCHANGED connectedBridges

\* 'close' on connection c
SrvCloseEvent(c) ==
  /\ srvConn[c].st \in {"open", "closing"}
  /\ srvConn' = [srvConn EXCEPT ![c].st = "closed"]
  /\ SrvOnClose(c)
  /\ lastAct' = "SrvCloseEvent"
  /\ UNCHANGED <<srvDelivered, pairSrvVars, schedVars, bridgeVars>>

\* checkStaleConnections finds the entry of bridgeId b stale: the socket is
\* closed and the entry deleted
SrvStale(b) ==
  /\ connectedBridges[b] # 0
  /\ srvConn' = [srvConn EXCEPT ![connectedBridges[b]].st = IF @ = "open" THEN "closing" ELSE @]
  /\ connectedBridges' = [connectedBridges EXCEPT ![b] = 0]
  /\ lastAct' = "SrvStale"
  /\ UNCHANGED <<srvDelivered, pairSrvVars, schedVars, bridgeVars>>

\* BridgeWebSocketServer.sendCommand(b, ...): what it returns
SrvSendCommand(b) ==
  /\ srvDelivered' = [srvDelivered EXCEPT ![b] =
                        IF connectedBridges[b] # 0 /\ srvConn[connectedBridges[b]].authenticated
                        THEN "sent" ELSE "not_connected"]
  /\ lastAct' = "SrvSendCommand"
  /\ UNCHANGED <<srvConn, connectedBridges, pairSrvVars, schedVars, bridgeVars>>

\* the server after setup(): no connection, an empty map
WsSrvInit ==
  /\ srvConn = [c \in SrvConns |-> NoConn]
  /\ connectedBridges = [b \in SrvBridgeIds |-> 0]
  /\ srvDelivered = [b \in SrvBridgeIds |-> "none"]

\* ---- cloud: the token refresh scheduler ---------------------------------
\* TokenRefreshScheduler.start
SchedStart ==
  /\ schedCalls < MaxSchedCalls
  /\ schedCalls' = schedCalls + 1
  /\ IF intervalId
     THEN /\ lastAct' = "SchedStartAgain"
          /\ UNCHANGED <<intervalId, schedStatus, schedIntervals, schedTimeouts, schedStopped>>
     ELSE /\ schedStatus' = [running |-> TRUE, nextRunAt |-> TRUE]
          /\ schedTimeouts' = schedTimeouts + 1
          /\ schedIntervals' = schedIntervals + 1
          /\ intervalId' = TRUE
          /\ schedStopped' = FALSE
          /\ lastAct' = "SchedStart"
  /\ UNCHANGED <<cycles, pairSrvVars, wsSrvVars, bridgeVars>>

\* TokenRefreshScheduler.stop
SchedStop ==
  /\ schedCalls < MaxSchedCalls
  /\ schedCalls' = schedCalls + 1
  /\ IF intervalId
     THEN schedIntervals' = schedIntervals - 1 /\ intervalId' = FALSE
     ELSE UNCHANGED <<schedIntervals, intervalId>>
  /\ schedStatus' = [running |-> FALSE, nextRunAt |-> FALSE]
  /\ schedStopped' = TRUE
  /\ lastAct' = "SchedStop"
  /\ UNCHANGED <<schedTimeouts, cycles, pairSrvVars, wsSrvVars, bridgeVars>>

\* runRefreshCycle is entered
CycleStarts ==
  /\ cycles.started < MaxCycles
  /\ cycles' = [started |-> cycles.started + 1, active |-> cycles.active + 1]

\* the 60 s timeout made by start() fires: runRefreshCycle
SchedTimeoutFires ==
  /\ schedTimeouts > 0
  /\ schedTimeouts' = schedTimeouts - 1
  /\ CycleStarts
  /\ lastAct' = "SchedTimeoutFires"
  /\ UNCHANGED <<intervalId, schedStatus, schedIntervals, schedCalls, schedStopped>>
  /\ UNCHANGED <<pairSrvVars, wsSrvVars, bridgeVars>>

\* the 6 h interval made by start() fires: runRefreshCycle
SchedIntervalFires ==
  /\ schedIntervals > 0
  /\ CycleStarts
  /\ lastAct' = "SchedIntervalFires"
  /\ UNCHANGED <<intervalId, schedStatus, schedIntervals, schedTimeouts, schedCalls, schedStopped>>
  /\ UNCHANGED <<pairSrvVars, wsSrvVars, bridgeVars>>

\* a refresh cycle reaches its end: lastRunAt, nextRunAt and the results are
\* stored
CycleEnds ==
  /\ cycles.active > 0
  /\ cycles' = [cycles EXCEPT !.active = @ - 1]
  /\ schedStatus' = [schedStatus EXCEPT !.nextRunAt = TRUE]
  /\ lastAct' = "CycleEnds"
  /\ UNCHANGED <<intervalId, schedIntervals, schedTimeouts, schedCalls, schedStopped>>
  /\ UNCHANGED <<pairSrvVars, wsSrvVars, bridgeVars>>

\* the scheduler as constructed
SchedInit ==
  /\ intervalId = FALSE
  /\ schedStatus = [running |-> FALSE, nextRunAt |-> FALSE]
  /\ schedIntervals = 0
  /\ schedTimeouts = 0
  /\ schedCalls = 0
  /\ schedStopped = FALSE
  /\ cycles = [started |-> 0, active |-> 0]

\* the cloud before any request, connection or scheduler call
ServerInit == PairSrvInit /\ WsSrvInit /\ SchedInit

\* ---- specification ------------------------------------------------------
\* the state after the HelmBridge constructor: the store has loaded the file
\* the pairing coordinator of a bridge whose start() has taken the given branch
PairInit(path) ==
  /\ pollAttempts = 0
  /\ pollTimer = 0
  /\ pcPoll = "none"
  /\ pollSock = 0
  /\ statusRequests = 0
  /\ srvCode = "none"
  /\ srvCred = NoCred
  /\ pairedSeen = FALSE
  /\ loopEnded = FALSE
  /\ startPath = path

\* no full sync has been requested
SyncInit ==
  /\ syncRes = [k \in SyncIds |-> [c \in Collections |-> "none"]]
  /\ syncOut = <<>>
  /\ syncCount = 0

\* the batcher of a new HelmBridge
BatchInit ==
  /\ stateChangeQueue = <<>>
  /\ batchTimer = 0
  /\ flushTimers = 0
  /\ batchOut = <<>>
  /\ evCount = 0
  /\ discarded = {}

Init ==
  /\ pcStart = "init"
  /\ startSock = 0
  /\ haSock = [s \in HubSlots |-> "free"]
  /\ haWs = 0
  /\ haSrv = [s \in HubSlots |-> "none"]
  /\ haAuthenticated = FALSE
  /\ eventSubscriptionId = 0
  /\ subscribedOn = 0
  /\ haReconnectAttempts = 0
  /\ haReconnectTimer = 0
  /\ haShouldReconnect = TRUE
  /\ messageId = 1
  /\ pendingResponses = {}
  /\ rpc = [i \in MsgIds |-> NoRpc]
  /\ hubDelays = <<>>
  /\ haAuthFailedEmitted = FALSE
  /\ haAuthInvalidSeen = FALSE
  /\ haDisconnectCalled = FALSE
  /\ cloudSock = [s \in CloudSlots |-> "free"]
  /\ cloudWs = 0
  /\ cloudSrv = [s \in CloudSlots |-> "none"]
  /\ cloudAuthenticated = FALSE
  /\ cloudReconnectAttempts = 0
  /\ cloudReconnectTimer = 0
  /\ cloudShouldReconnect = TRUE
  /\ heartbeatTimer = FALSE
  /\ tickers = 0
  /\ credFile \in {NoCred, Cred}
  /\ credentials = load(credFile)
  /\ clearedSince = FALSE
  /\ PairInit("none")
  /\ cloudOut = <<>>
  /\ cmdFrames = 0
  /\ lastCmd = NoCmd
  /\ revokedSeen = FALSE
  /\ disconnectSeen = "none"
  /\ cloudDelays = <<>>
  /\ BatchInit
  /\ SyncInit
  /\ ServerInit
  /\ lastAct = "Init"

Next ==
  \/ Start
  \/ \E s \in HubSlots : HubSocketOpen(s)
  \/ \E s \in HubSlots : HubConnectFail(s)
  \/ \E s \in HubSlots : HubSocketClose(s)
  \/ HubReconnectTimer
  \/ \E s \in HubSlots : HubAuthRequired(s)
  \/ \E s \in HubSlots : HubAuthOk(s)
  \/ \E s \in HubSlots : HubAuthInvalid(s)
  \/ \E id \in MsgIds, success \in BOOLEAN : HubResult(id, success)
  \/ \E id \in MsgIds : CommandTimeout(id)
  \/ \E s \in CloudSlots : CloudSocketOpen(s)
  \/ \E s \in CloudSlots : CloudConnectFail(s)
  \/ \E s \in CloudSlots : CloudSocketClose(s)
  \/ CloudReconnectTimer
  \/ ConnectToCloud
  \/ \E s \in CloudSlots, success \in BOOLEAN, e \in ErrorTexts, f \in BOOLEAN :
       CloudAuthResult(s, success, e, f)
  \/ \E s \in CloudSlots, c \in CmdIds, a \in BOOLEAN, t \in CommandTypes, x \in BOOLEAN :
       CloudCommand(s, c, a, t, x)
  \/ \E s \in CloudSlots, r \in DisconnectReasons, f \in BOOLEAN : CloudDisconnectFrame(s, r, f)
  \/ \E s \in CloudSlots : RequestFullSync(s)
  \/ HeartbeatTick
  \/ \E s \in CloudSlots : RequestHeartbeat(s)
  \/ \E s \in HubSlots, e \in EntityIds, n \in BOOLEAN, f \in BOOLEAN : HubEvent(s, e, n, f)
  \/ FlushTimer
  \/ \E ok \in BOOLEAN : PairingCodeResponse(ok)
  \/ \E bc \in BridgeCredentials, t \in TenantIds : Redeem(bc, t)
  \/ ExpireCode
  \/ PollTimer
  \/ \E f \in PollFaults, o \in SaveOutcomes : PollResponse(f, o)
  \/ Stop

Spec == Init /\ [][Next]_vars

TypeOK ==
  /\ pcStart \in {"init", "hub_connect", "get_entities", "get_states", "done", "request_code", "exited"}
  /\ messageId \in 1..(MaxMsgId + 1)
  /\ pendingResponses \subseteq MsgIds
  /\ haReconnectAttempts \in 0..maxReconnectAttempts
  /\ cloudReconnectAttempts \in 0..maxReconnectAttempts


\* ---- the hub session on its own -----------------------------------------
\* the hub session, its multiplexer and start(), with a silent cloud
NextHub ==
  \/ Start
  \/ \E s \in HubSlots : HubSocketOpen(s)
  \/ \E s \in HubSlots : HubConnectFail(s)
  \/ \E s \in HubSlots : HubSocketClose(s)
  \/ HubReconnectTimer
  \/ \E s \in HubSlots : HubAuthRequired(s)
  \/ \E s \in HubSlots : HubAuthOk(s)
  \/ \E s \in HubSlots : HubAuthInvalid(s)
  \/ \E id \in MsgIds, success \in BOOLEAN : HubResult(id, success)
  \/ \E id \in MsgIds : CommandTimeout(id)
  \/ Stop

SpecHub == Init /\ [][NextHub]_vars


\* ---- properties of the hub session --------------------------------------
IsPrefix(p, q) == Len(p) <= Len(q) /\ \A i \in 1..Len(p) : p[i] = q[i]

\* the requests sendCommand issued past its authenticated check
Issued == {id \in MsgIds : rpc[id].owner \in {"getEntities", "getStates", "call_service"}}

\* a step that arms the hub reconnect timer
HubScheduleStep == haReconnectTimer = 0 /\ haReconnectTimer' # 0

\* a step that creates a hub WebSocket
HubConnectStep == \E s \in HubSlots : haSock[s] = "free" /\ haSock'[s] = "connecting"

\* C1: every hub RPC issued while authenticated settles exactly once - by its
\* result frame, by timeout or by a disconnect error - by the time its 30 s
\* deadline has passed: resolve/reject is never called twice, and once the
\* timer has fired the promise is settled.
C1_SettlesExactlyOnce ==
  \A id \in Issued :
    /\ rpc[id].calls <= 1
    /\ ~rpc[id].timer => /\ rpc[id].calls = 1
                         /\ rpc[id].promise \in {"fulfilled", "rejected", "timeout", "disconnect"}

\* C5: when the hub session closes (close event or disconnect()) with requests
\* outstanding, every outstanding waiter is failed with a disconnect error and
\* the waiters table is left empty.
C5_WaitersFailedOnClose ==
  [][lastAct' \in {"HubSocketClose", "Stop"} =>
       /\ pendingResponses' = {}
       /\ \A id \in pendingResponses : rpc'[id].promise = "disconnect"]_vars

ExpectedHubDelays == <<1000, 2000, 4000, 8000, 16000, 30000, 30000, 30000, 30000, 30000>>

C8_ResetOnlyOnAuth ==
  [][/\ haReconnectAttempts' < haReconnectAttempts => lastAct' = "HubAuthOk"
     /\ lastAct' = "HubAuthOk" => haReconnectAttempts' = 0
     /\ cloudReconnectAttempts' < cloudReconnectAttempts => lastAct' = "CloudAuthOk"
     /\ lastAct' = "CloudAuthOk" => cloudReconnectAttempts' = 0]_vars

\* C9: once the hub has sent auth_invalid, auth_failed has been emitted and no
\* hub reconnect is scheduled and no hub socket is created any more.
C9_NoRetryAfterAuthInvalid ==
  /\ [](haAuthInvalidSeen => haAuthFailedEmitted)
  /\ [][haAuthInvalidSeen => ~HubScheduleStep /\ ~HubConnectStep]_vars

\* C10: from the call of disconnect() on, no hub reconnect timer is armed and no
\* hub socket is created, also when the close event arrives afterwards.
C10_NoConnectAfterDisconnect ==
  [][haDisconnectCalled' => haReconnectTimer' = 0 /\ ~HubConnectStep]_vars

\* the close event of the socket disconnect() closed has been delivered
C10_Witness ==
  /\ haDisconnectCalled
  /\ lastAct = "HubSocketClose"
  /\ \A s \in HubSlots : haSock[s] = "free"


\* ---- the cloud session on a started bridge ------------------------------
\* start() has finished on a paired bridge: the hub session is authenticated
\* and subscribed (id 1), getEntities (id 2) and getStates (id 3) were answered
\* and their timers have run out, and the cloud connect has just been made
InitRunning ==
  /\ pcStart = "done"
  /\ startSock = 1
  /\ haSock = [s \in HubSlots |-> IF s = 1 THEN "open" ELSE "free"]
  /\ haWs = 1
  /\ haSrv = [s \in HubSlots |-> IF s = 1 THEN "authed" ELSE "none"]
  /\ haAuthenticated = TRUE
  /\ eventSubscriptionId = 1
  /\ subscribedOn = 1
  /\ haReconnectAttempts = 0
  /\ haReconnectTimer = 0
  /\ haShouldReconnect = TRUE
  /\ messageId = 4
  /\ pendingResponses = {}
  /\ rpc = [i \in MsgIds |->
              IF i = 1 THEN [NoRpc EXCEPT !.owner = "subscribe"]
              ELSE IF i = 2 THEN [NoRpc EXCEPT !.owner = "getEntities", !.promise = "fulfilled", !.calls = 1]
              ELSE IF i = 3 THEN [NoRpc EXCEPT !.owner = "getStates", !.promise = "fulfilled", !.calls = 1]
              ELSE NoRpc]
  /\ hubDelays = <<>>
  /\ haAuthFailedEmitted = FALSE
  /\ haAuthInvalidSeen = FALSE
  /\ haDisconnectCalled = FALSE
  /\ cloudSock = [s \in CloudSlots |-> IF s = 1 THEN "connecting" ELSE "free"]
  /\ cloudWs = 1
  /\ cloudSrv = [s \in CloudSlots |-> "none"]
  /\ cloudAuthenticated = FALSE
  /\ cloudReconnectAttempts = 0
  /\ cloudReconnectTimer = 0
  /\ cloudShouldReconnect = TRUE
  /\ heartbeatTimer = FALSE
  /\ tickers = 0
  /\ credFile = Cred
  /\ credentials = Cred
  /\ clearedSince = FALSE
  /\ PairInit("cloud")
  /\ cloudOut = <<>>
  /\ cmdFrames = 0
  /\ lastCmd = NoCmd
  /\ revokedSeen = FALSE
  /\ disconnectSeen = "none"
  /\ cloudDelays = <<>>
  /\ BatchInit
  /\ SyncInit
  /\ ServerInit
  /\ lastAct = "CommandTimeout"

\* the cloud session of a started bridge, with a quiet hub and no commands
NextCloud ==
  \/ \E s \in CloudSlots : CloudSocketOpen(s)
  \/ \E s \in CloudSlots : CloudConnectFail(s)
  \/ \E s \in CloudSlots : CloudSocketClose(s)
  \/ CloudReconnectTimer
  \/ ConnectToCloud
  \/ \E s \in CloudSlots, success \in BOOLEAN, e \in ErrorTexts, f \in BOOLEAN :
       CloudAuthResult(s, success, e, f)
  \/ \E s \in CloudSlots, r \in DisconnectReasons, f \in BOOLEAN : CloudDisconnectFrame(s, r, f)
  \/ Stop

SpecCloud == InitRunning /\ [][NextCloud]_vars

\* ---- the command executor on an authenticated cloud session -------------
\* the cloud socket of InitRunning has opened and auth_result success arrived
InitCmd ==
  /\ pcStart = "done"
  /\ startSock = 1
  /\ haSock = [s \in HubSlots |-> IF s = 1 THEN "open" ELSE "free"]
  /\ haWs = 1
  /\ haSrv = [s \in HubSlots |-> IF s = 1 THEN "authed" ELSE "none"]
  /\ haAuthenticated = TRUE
  /\ eventSubscriptionId = 1
  /\ subscribedOn = 1
  /\ haReconnectAttempts = 0
  /\ haReconnectTimer = 0
  /\ haShouldReconnect = TRUE
  /\ messageId = 4
  /\ pendingResponses = {}
  /\ rpc = [i \in MsgIds |->
              IF i = 1 THEN [NoRpc EXCEPT !.owner = "subscribe"]
              ELSE IF i = 2 THEN [NoRpc EXCEPT !.owner = "getEntities", !.promise = "fulfilled", !.calls = 1]
              ELSE IF i = 3 THEN [NoRpc EXCEPT !.owner = "getStates", !.promise = "fulfilled", !.calls = 1]
              ELSE NoRpc]
  /\ hubDelays = <<>>
  /\ haAuthFailedEmitted = FALSE
  /\ haAuthInvalidSeen = FALSE
  /\ haDisconnectCalled = FALSE
  /\ cloudSock = [s \in CloudSlots |-> IF s = 1 THEN "open" ELSE "free"]
  /\ cloudWs = 1
  /\ cloudSrv = [s \in CloudSlots |-> IF s = 1 THEN "authed" ELSE "none"]
  /\ cloudAuthenticated = TRUE
  /\ cloudReconnectAttempts = 0
  /\ cloudReconnectTimer = 0
  /\ cloudShouldReconnect = TRUE
  /\ heartbeatTimer = TRUE
  /\ tickers = 1
  /\ credFile = Cred
  /\ credentials = Cred
  /\ clearedSince = FALSE
  /\ PairInit("cloud")
  /\ cloudOut = <<>>
  /\ cmdFrames = 0
  /\ lastCmd = NoCmd
  /\ revokedSeen = FALSE
  /\ disconnectSeen = "none"
  /\ cloudDelays = <<>>
  /\ BatchInit
  /\ SyncInit
  /\ ServerInit
  /\ lastAct = "CloudAuthOk"

\* commands arrive, the hub answers or not, either socket may drop
NextCmd ==
  \/ \E s \in CloudSlots, c \in CmdIds, a \in BOOLEAN, t \in CommandTypes, x \in BOOLEAN :
       CloudCommand(s, c, a, t, x)
  \/ \E id \in MsgIds, success \in BOOLEAN : HubResult(id, success)
  \/ \E id \in MsgIds : CommandTimeout(id)
  \/ \E s \in HubSlots : HubSocketClose(s)
  \/ \E s \in CloudSlots : CloudSocketClose(s)
  \/ Stop

SpecCmd == InitCmd /\ [][NextCmd]_vars


\* ---- properties of the cloud session and the command executor -----------
AckPositions(c) == {i \in 1..Len(cloudOut) : cloudOut[i].type = "command_ack" /\ cloudOut[i].cmdId = c}

ResultPositions(c) == {i \in 1..Len(cloudOut) : cloudOut[i].type = "command_result" /\ cloudOut[i].cmdId = c}

\* a step that arms the cloud reconnect timer
CloudScheduleStep == cloudReconnectTimer = 0 /\ cloudReconnectTimer' # 0

\* a step that creates a cloud WebSocket
CloudConnectStep == \E s \in CloudSlots : cloudSock[s] = "free" /\ cloudSock'[s] = "connecting"

\* C2: for every cmdId at most one command_ack is written to the cloud socket,
\* and it is written before every command_result with that cmdId.
C2_AckOnceBeforeResult ==
  \A c \in CmdIds :
    /\ Cardinality(AckPositions(c)) <= 1
    /\ \A i \in AckPositions(c), j \in ResultPositions(c) : i < j

\* C3: every cmdId appears in at most one command_result frame written to the
\* cloud socket.
C3_ResultOnce == \A c \in CmdIds : Cardinality(ResultPositions(c)) <= 1

\* C4: at most one hub WebSocket and at most one cloud WebSocket is open.
C4_AtMostOneOpenSocket ==
  /\ Cardinality({s \in HubSlots : haSock[s] = "open"}) <= 1
  /\ Cardinality({s \in CloudSlots : cloudSock[s] = "open"}) <= 1

\* C6: once auth_result has failed with an error text naming revocation or
\* invalidity, the credential store is cleared and should-reconnect is false,
\* and from then on no cloud reconnect is scheduled and no cloud socket created.
C6_RevokedStopsReconnect ==
  /\ [](revokedSeen => credentials = NoCred /\ credFile = NoCred /\ ~cloudShouldReconnect)
  /\ [][revokedSeen => ~CloudScheduleStep /\ ~CloudConnectStep]_vars


\* ---- the state batcher on a started, authenticated bridge ---------------
\* hub events arrive, the flush timer fires, the cloud session drops and comes
\* back, the bridge is stopped
NextBatch ==
  \/ \E s \in HubSlots, e \in EntityIds, n \in BOOLEAN, f \in BOOLEAN : HubEvent(s, e, n, f)
  \/ FlushTimer
  \/ \E s \in CloudSlots : CloudSocketClose(s)
  \/ CloudReconnectTimer
  \/ \E s \in CloudSlots : CloudSocketOpen(s)
  \/ \E s \in CloudSlots, success \in BOOLEAN, e \in ErrorTexts, f \in BOOLEAN :
       CloudAuthResult(s, success, e, f)
  \/ Stop

SpecBatch == InitCmd /\ [][NextBatch]_vars

\* ---- properties of the state batcher ------------------------------------
\* arrival numbers of the events of a buffer or of a frame
Arrivals(q) == [i \in 1..Len(q) |-> q[i].n]

\* a step that runs flushStateChanges
FlushStep == lastAct' = "FlushTimer" \/ (lastAct' = "Stop" /\ batchTimer # 0)

\* the step wrote exactly one state_batch frame, carrying the buffer in order
WroteBufferAsOneBatch ==
  /\ Len(batchOut') = Len(batchOut) + 1
  /\ SubSeq(batchOut', 1, Len(batchOut)) = batchOut
  /\ Arrivals(batchOut'[Len(batchOut')]) = Arrivals(stateChangeQueue)

\* C11: within a state_batch frame the events are in arrival order, and every
\* event of an earlier frame arrived before every event of a later frame.
C11_HubOrder ==
  \A i \in 1..Len(batchOut) :
    /\ \A k \in 1..Len(batchOut[i]), l \in 1..Len(batchOut[i]) :
         k < l => batchOut[i][k].n < batchOut[i][l].n
    /\ \A j \in 1..Len(batchOut) : \A k \in 1..Len(batchOut[i]), l \in 1..Len(batchOut[j]) :
         i < j => batchOut[i][k].n < batchOut[j][l].n

\* a frame of two events was followed by a second frame
C11_Witness ==
  /\ Len(batchOut) = 2
  /\ Len(batchOut[1]) = 2
  /\ lastAct = "FlushTimer"

\* C12: at most one flush timeout is armed; the event that finds none armed
\* arms one for 500 ms and later events of the window leave it alone; when it
\* fires with the cloud session connected, the events of the window go out in
\* exactly one state_batch frame.
C12_OneTimerOneBatch ==
  /\ [](flushTimers <= 1)
  /\ [][lastAct' = "HubEvent" =>
          IF batchTimer = 0
          THEN batchTimer' = 500 /\ flushTimers' = flushTimers + 1
          ELSE batchTimer' = batchTimer /\ flushTimers' = flushTimers]_vars
  /\ [][lastAct' = "FlushTimer" /\ isConnected /\ stateChangeQueue # <<>> =>
          WroteBufferAsOneBatch]_vars

\* C13: a flush that runs without a connected cloud session empties the buffer
\* and writes no frame, and no event it dropped is in any state_batch frame.
C13_DiscardedWhenOffline ==
  /\ [][FlushStep /\ ~isConnected => stateChangeQueue' = <<>> /\ batchOut' = batchOut]_vars
  /\ [](\A i \in 1..Len(batchOut) : \A k \in 1..Len(batchOut[i]) : batchOut[i][k].n \notin discarded)

\* events were dropped offline and, after the session came back, a later event
\* went out in a frame
C13_Witness ==
  /\ discarded # {}
  /\ stateChangeQueue = <<>>
  /\ \E i \in 1..Len(batchOut) : \E k \in 1..Len(batchOut[i]) :
       \A d \in discarded : d < batchOut[i][k].n

\* C14: stop() with events buffered and the cloud session connected writes the
\* buffer in one state_batch frame, then closes the cloud socket, then the hub
\* session.
C14_FinalFlushOnStop ==
  [][lastAct' = "Stop" /\ isConnected /\ stateChangeQueue # <<>> =>
       /\ WroteBufferAsOneBatch
       /\ cloudSock'[cloudWs] = "closing"
       /\ cloudWs' = 0
       /\ haDisconnectCalled']_vars


\* ---- the end of start() and the pairing coordinator ---------------------
\* start() awaits getStates (id 3) on an authenticated hub session; the store
\* has loaded a credential or none
InitStarting ==
  /\ pcStart = "get_states"
  /\ startSock = 1
  /\ haSock = [s \in HubSlots |-> IF s = 1 THEN "open" ELSE "free"]
  /\ haWs = 1
  /\ haSrv = [s \in HubSlots |-> IF s = 1 THEN "authed" ELSE "none"]
  /\ haAuthenticated = TRUE
  /\ eventSubscriptionId = 1
  /\ subscribedOn = 1
  /\ haReconnectAttempts = 0
  /\ haReconnectTimer = 0
  /\ haShouldReconnect = TRUE
  /\ messageId = 4
  /\ pendingResponses = {3}
  /\ rpc = [i \in MsgIds |->
              IF i = 1 THEN [NoRpc EXCEPT !.owner = "subscribe"]
              ELSE IF i = 2 THEN [NoRpc EXCEPT !.owner = "getEntities", !.promise = "fulfilled", !.calls = 1]
              ELSE IF i = 3 THEN [NoRpc EXCEPT !.owner = "getStates", !.promise = "pending",
                                               !.timer = TRUE, !.sentOn = 1]
              ELSE NoRpc]
  /\ hubDelays = <<>>
  /\ haAuthFailedEmitted = FALSE
  /\ haAuthInvalidSeen = FALSE
  /\ haDisconnectCalled = FALSE
  /\ cloudSock = [s \in CloudSlots |-> "free"]
  /\ cloudWs = 0
  /\ cloudSrv = [s \in CloudSlots |-> "none"]
  /\ cloudAuthenticated = FALSE
  /\ cloudReconnectAttempts = 0
  /\ cloudReconnectTimer = 0
  /\ cloudShouldReconnect = TRUE
  /\ heartbeatTimer = FALSE
  /\ tickers = 0
  /\ credFile \in {NoCred, Cred}
  /\ credentials = load(credFile)
  /\ clearedSince = FALSE
  /\ cloudOut = <<>>
  /\ cmdFrames = 0
  /\ lastCmd = NoCmd
  /\ revokedSeen = FALSE
  /\ disconnectSeen = "none"
  /\ cloudDelays = <<>>
  /\ BatchInit
  /\ SyncInit
  /\ ServerInit
  /\ PairInit("none")
  /\ lastAct = "CommandTimeout"

\* start() finishes, the code is redeemed or expires, the loop polls, and the
\* cloud socket it makes opens, is answered and closes
NextPair ==
  \/ \E id \in MsgIds, success \in BOOLEAN : HubResult(id, success)
  \/ \E ok \in BOOLEAN : PairingCodeResponse(ok)
  \/ \E bc \in BridgeCredentials, t \in TenantIds : Redeem(bc, t)
  \/ ExpireCode
  \/ PollTimer
  \/ \E f \in PollFaults, o \in SaveOutcomes : PollResponse(f, o)
  \/ \E s \in CloudSlots : CloudSocketOpen(s)
  \/ \E s \in CloudSlots : CloudSocketClose(s)
  \/ \E s \in CloudSlots, success \in BOOLEAN, f \in BOOLEAN :
       CloudAuthResult(s, success, ServerAuthError, f)

SpecPair == InitStarting /\ [][NextPair]_vars


\* ---- properties of the credential store and the pairing coordinator -----
\* a record with the three identifying fields present
Complete(c) ==
  /\ c # NoCred
  /\ c # Truncated
  /\ c.bridgeId # ""
  /\ c.bridgeCredential # ""
  /\ c.tenantId # ""

\* a step of the polling loop
PollStep == lastAct' \in {"PollTimer", "PollFault", "PollNotFound", "PollPaired",
                          "PollPairedSaveFailed", "PollClaimed", "PollExpired", "PollPending"}

\* C15: from a call of clear() until the next save() that completes, isPaired()
\* is false, whether or not the file could be removed.
C15_UnpairedAfterClear == clearedSince => ~isPaired(credentials)

\* C16: the credential in memory and the credential file are each either absent
\* or a complete record, also after a save that failed part-way.
C16_AbsentOrComplete ==
  /\ credentials = NoCred \/ Complete(credentials)
  /\ credFile = NoCred \/ Complete(credFile)

\* C17: the handler of a status response {paired, bridgeCredential, tenantId,
\* bridgeId} whose save() completes leaves the store, in memory and on disk,
\* holding exactly the bridgeId, bridgeCredential and tenantId of the redemption.
C17_StoreHoldsRedeemed ==
  [][lastAct' = "PollPaired" =>
       /\ credentials' = srvCred
       /\ credFile' = srvCred
       /\ srvCred.bridgeId = BridgeId]_vars

\* the second credential value was redeemed and stored
C17_Witness ==
  /\ lastAct = "PollPaired"
  /\ credentials = [bridgeId |-> BridgeId, bridgeCredential |-> "bc_cafe", tenantId |-> "7"]
  /\ credFile = credentials

\* C18: the poll that returns paired with a credential persists it and makes
\* the cloud connect, and from then on the loop issues no status request, arms
\* no poll timeout and makes no second connect, whatever the connect's outcome.
C18_PairedEndsLoop ==
  /\ [][lastAct' = "PollPaired" =>
          credentials' = srvCred /\ CloudConnectStep /\ pollTimer' = 0]_vars
  /\ [][pairedSeen =>
          /\ statusRequests' = statusRequests
          /\ pollTimer' = 0
          /\ PollStep => ~CloudConnectStep]_vars

\* C19: at most 120 status requests are issued, each poll timeout is armed for
\* 5000 ms, no status request follows a termination condition (credential
\* persisted and connect initiated, code expired, cap exhausted), and the
\* expired answer ends the loop without a save or a connect.
C19_LoopTerminates ==
  /\ [](statusRequests <= 120 /\ pollAttempts <= 120 /\ pollTimer \in {0, 5000})
  /\ [][loopEnded => statusRequests' = statusRequests /\ pollTimer' = 0]_vars
  /\ [][lastAct' = "PollExpired" =>
          /\ credentials' = credentials
          /\ credFile' = credFile
          /\ ~CloudConnectStep
          /\ pollTimer' = 0
          /\ pcPoll' = "ended"]_vars

\* a step in which start() leaves the hub phase
StartDecides ==
  /\ pcStart \in {"get_entities", "get_states"}
  /\ pcStart' \notin {"get_entities", "get_states", "exited"}

cloudSession == <<cloudSock, cloudWs, cloudSrv, cloudAuthenticated, cloudReconnectAttempts,
                  cloudShouldReconnect, heartbeatTimer, tickers>>

\* C21: a connect() made while no credential is resident - the only caller that
\* does not test isPaired() first is the reconnect timer - creates no socket,
\* has no authenticate frame sent and leaves every field of the session as it
\* was; and no step at all creates a cloud socket without a credential resident.
C21_ConnectNoopUnpaired ==
  /\ [][lastAct' = "CloudReconnectTimer" /\ ~isPaired(credentials) =>
          cloudSession' = cloudSession]_vars
  /\ [][CloudConnectStep => isPaired(credentials)]_vars

\* the reconnect timer has fired on a bridge whose store was cleared meanwhile
C21_Witness ==
  /\ lastAct = "CloudReconnectTimer"
  /\ credentials = NoCred
  /\ revokedSeen

\* C22: the handler of a disconnect frame leaves should-reconnect false and the
\* session's socket closing; it clears the store, in memory and on disk, for
\* the reasons user_disconnected and user_reset and leaves it alone for any
\* other reason; afterwards no reconnect timer is armed and none fires into a
\* new socket.
C22_DisconnectFrame ==
  /\ [][lastAct' = "CloudDisconnectFrame" =>
          /\ ~cloudShouldReconnect'
          /\ cloudWs' = 0
          /\ cloudWs # 0 => cloudSock'[cloudWs] \notin {"open", "connecting"}
          /\ IF disconnectSeen' \in {"user_disconnected", "user_reset"}
             THEN credentials' = NoCred /\ credFile' = NoCred
             ELSE credentials' = credentials /\ credFile' = credFile]_vars
  /\ [][disconnectSeen # "none" =>
          /\ ~CloudScheduleStep
          /\ lastAct' = "CloudReconnectTimer" => ~CloudConnectStep]_vars

ExpectedCloudDelays == <<1000, 2000, 4000, 8000, 16000, 32000, 60000, 60000, 60000, 60000>>

NextSync ==
  \/ \E s \in CloudSlots : RequestFullSync(s)
  \/ \E id \in MsgIds, success \in BOOLEAN : HubResult(id, success)
  \/ \E id \in MsgIds : CommandTimeout(id)
  \/ \E s \in HubSlots : HubSocketClose(s)
  \/ \E s \in CloudSlots : CloudSocketClose(s)

SpecSync == InitCmd /\ [][NextSync]_vars

\* the calls of collectFullSync call k have all settled
SyncSettled(k) == \A c \in Collections : syncRes[k][c] \in {"fulfilled", "failed"}

NextExec ==
  \/ \E s \in CloudSlots, c \in CmdIds, x \in BOOLEAN : CloudCommand(s, c, TRUE, "ha_call_service", x)
  \/ \E id \in MsgIds, success \in BOOLEAN : HubResult(id, success)
  \/ \E id \in MsgIds : CommandTimeout(id)
  \/ \E s \in HubSlots : HubSocketClose(s)
  \/ \E s \in CloudSlots : CloudSocketClose(s)
  \/ Stop

SpecExec == InitCmd /\ [][NextExec]_vars

\* ---- further properties of the command executor ------------------------
\* the command_result the step has appended for cmdId, when the socket took it
ResultWritten(cmdId, status, code) ==
  cloudCanSend =>
    /\ Len(cloudOut') > Len(cloudOut)
    /\ cloudOut'[Len(cloudOut')].type = "command_result"
    /\ cloudOut'[Len(cloudOut')].cmdId = cmdId
    /\ cloudOut'[Len(cloudOut')].status = status
    /\ cloudOut'[Len(cloudOut')].code = code

\* the step issues a hub request
IssuesHubCall == messageId' # messageId

\* waiter id of a call_service is settled by the step with the given outcome
SettledBy(id, outcome) ==
  /\ rpc[id].owner = "call_service"
  /\ rpc[id].promise = "pending"
  /\ rpc'[id].promise = outcome

\* C25: an ha_call_service command whose ttl has not run out makes the
\* executor issue one hub call_service (refused at once when the hub session
\* is not authenticated); when the call is answered the command_result says
\* completed and carries the hub's response; when it is refused, answered with
\* an error or times out the command_result says failed with code
\* EXECUTION_FAILED, and that step leaves the hub session and the cloud
\* session as they were.
C25_CallServiceResult ==
  /\ [][lastAct' = "CloudCommand" /\ lastCmd'.commandType = "ha_call_service" /\ ~lastCmd'.expired =>
          IF haAuthenticated
          THEN /\ messageId' = messageId + 1
               /\ rpc'[messageId].owner = "call_service"
               /\ rpc'[messageId].cmd = lastCmd'.cmdId
               /\ \A i \in (Len(cloudOut) + 1)..Len(cloudOut') : cloudOut'[i].type = "command_ack"
          ELSE /\ ~IssuesHubCall
               /\ ResultWritten(lastCmd'.cmdId, "failed", "EXECUTION_FAILED")
               /\ hubVars' = hubVars /\ cloudSession' = cloudSession]_vars
  /\ [][\A id \in MsgIds :
          /\ SettledBy(id, "fulfilled") =>
               /\ ResultWritten(rpc[id].cmd, "completed", "none")
               /\ cloudCanSend => cloudOut'[Len(cloudOut')].haResponse
          /\ SettledBy(id, "rejected") \/ SettledBy(id, "timeout") =>
               /\ ResultWritten(rpc[id].cmd, "failed", "EXECUTION_FAILED")
               /\ hubVars' = hubVars /\ cloudSession' = cloudSession]_vars

\* a hub call timed out, and the failed result went out on sessions that are
\* both still authenticated
C25_Witness ==
  /\ lastAct = "CommandTimeout"
  /\ Len(cloudOut) > 0
  /\ cloudOut[Len(cloudOut)].status = "failed"
  /\ cloudOut[Len(cloudOut)].code = "EXECUTION_FAILED"
  /\ lastCmd.commandType = "ha_call_service"
  /\ \E id \in MsgIds : rpc[id].owner = "call_service" /\ rpc[id].promise = "timeout"
  /\ haAuthenticated
  /\ cloudAuthenticated

\* C26: a command whose commandType the executor does not recognise gets a
\* command_result failed with code UNKNOWN_COMMAND, and no hub request is
\* issued for it.
C26_UnknownCommand ==
  [][lastAct' = "CloudCommand" /\ lastCmd'.commandType # "ha_call_service" =>
       /\ ~IssuesHubCall
       /\ ResultWritten(lastCmd'.cmdId, "failed", "UNKNOWN_COMMAND")]_vars

\* C27: a command whose ttlMs has run out since its issuedAt when it is about
\* to be dispatched gets a command_result expired, and no hub request is
\* issued for it.
C27_ExpiredNotDispatched ==
  [][lastAct' = "CloudCommand" /\ lastCmd'.expired =>
       /\ ~IssuesHubCall
       /\ ResultWritten(lastCmd'.cmdId, "expired", "none")]_vars


\* ---- further properties of the hub session ------------------------------
\* C28: the id counter never goes back, every id a step assigns to an outbound
\* hub frame (request or event subscription) is an id never assigned before
\* and not below the counter, and the counter ends above it; so ids are
\* strictly increasing and none is reused, across reconnects and timeouts.
C28_IdsIncrease ==
  /\ [][messageId' >= messageId]_vars
  /\ [][\A id \in MsgIds : rpc'[id].owner # rpc[id].owner =>
          /\ rpc[id] = NoRpc
          /\ messageId <= id
          /\ id < messageId']_vars
  /\ [](\A id \in MsgIds : (rpc[id] # NoRpc) <=> id < messageId)

\* after a request timed out and the session reconnected, the new
\* subscription got a fresh id
C28_Witness ==
  /\ lastAct = "HubAuthOk"
  /\ messageId > 4
  /\ rpc[messageId - 1].owner = "subscribe"
  /\ \E id \in MsgIds : rpc[id].promise = "timeout"
  /\ Cardinality({id \in MsgIds : rpc[id].owner = "subscribe"}) = 2

\* the promises and the settle calls of all requests
Promises == [id \in MsgIds |-> <<rpc[id].promise, rpc[id].calls>>]

\* a result frame handled while its id has no waiter: no waiter leaves the table
StaleResultStep == lastAct' = "HubResult" /\ pendingResponses' = pendingResponses

\* C29: a result frame whose id has no waiter (it timed out or was removed)
\* settles no promise, calls no resolve or reject, and leaves the hub session,
\* the cloud session, start() and everything written to the cloud as it was.
C29_LateResultDropped ==
  [][StaleResultStep =>
       /\ Promises' = Promises
       /\ messageId' = messageId
       /\ hubVars' = hubVars
       /\ cloudVars' = cloudVars
       /\ startVars' = startVars
       /\ cloudOut' = cloudOut
       /\ syncVars' = syncVars
       /\ Alive']_vars

\* the answer to a request came after the request had timed out
C29_Witness ==
  /\ lastAct = "HubResult"
  /\ \E id \in MsgIds :
       /\ rpc[id].promise = "timeout"
       /\ rpc[id].calls = 1
       /\ rpc[id].sentOn = 0
       /\ haWs # 0
       /\ haSock[haWs] = "open"
       /\ id = messageId - 1
\* C30: the poll answered paired without a credential makes the cloud connect
\* when the store is populated and otherwise changes nothing but the loop's
\* position; either way it arms no poll timeout, and once the loop has ended
\* on a claimed code no status request is issued and no timeout is armed.
C30_ClaimedEndsLoop ==
  /\ [][lastAct' = "PollClaimed" =>
          /\ isPaired(credentials) => CloudConnectStep /\ pcPoll' \in {"connecting", "ended"}
          /\ ~isPaired(credentials) => ~CloudConnectStep /\ pcPoll' = "ended"
          /\ pollTimer' = 0
          /\ statusRequests' = statusRequests
          /\ credentials' = credentials /\ credFile' = credFile]_vars
  /\ [][srvCode = "claimed" /\ pcPoll = "ended" =>
          /\ statusRequests' = statusRequests
          /\ pollTimer' = 0
          /\ pcPoll' = "ended"]_vars

\* the claimed answer reached a bridge whose store is empty, after an earlier
\* poll had received the credential and failed to persist it
C30_Witness ==
  /\ lastAct = "PollClaimed"
  /\ ~isPaired(credentials)
  /\ pcPoll = "ended"
  /\ pollTimer = 0
  /\ statusRequests >= 2

\* the poll outcomes after which poll() reaches its tail
NonTerminalStep ==
  \/ lastAct' \in {"PollPending", "PollFault"}
  \/ lastAct' = "PollNotFound" /\ ~isPaired(credentials)

\* C31: below 120 attempts a pending body, a 404 with an empty store, a
\* non-JSON answer and a transport error each arm the next poll for 5000 ms
\* and make no connect; at the cap they arm nothing; a 404 with a populated
\* store makes the cloud connect and arms nothing; and a loop waiting for its
\* next poll has its 5000 ms timeout armed.
C31_NonTerminalPollsAgain ==
  /\ [][NonTerminalStep =>
          /\ pollAttempts < maxAttempts => pollTimer' = pollInterval /\ pcPoll' = "waiting"
          /\ pollAttempts >= maxAttempts => pollTimer' = 0 /\ pcPoll' = "ended"
          /\ ~CloudConnectStep
          /\ credentials' = credentials]_vars
  /\ [][lastAct' = "PollNotFound" /\ isPaired(credentials) =>
          CloudConnectStep /\ pollTimer' = 0 /\ pcPoll' \in {"connecting", "ended"}]_vars
  /\ [](pcPoll = "waiting" => pollTimer = pollInterval)

\* a 404 answered a bridge with an empty store below the cap, after an earlier
\* poll, and the next poll is armed
C31_Witness ==
  /\ lastAct = "PollNotFound"
  /\ ~isPaired(credentials)
  /\ pollAttempts \in 2..(maxAttempts - 1)
  /\ pollTimer = pollInterval
  /\ pcPoll = "waiting"

\* ---- the heartbeat ticker ------------------------------------------------
\* the cloud session's lifecycle with the ticker firing, the cloud asking for
\* a heartbeat, and the hub socket closing
NextBeat ==
  \/ \E s \in CloudSlots : CloudSocketOpen(s)
  \/ \E s \in CloudSlots : CloudConnectFail(s)
  \/ \E s \in CloudSlots : CloudSocketClose(s)
  \/ CloudReconnectTimer
  \/ ConnectToCloud
  \/ \E s \in CloudSlots, success \in BOOLEAN : CloudAuthResult(s, success, ServerAuthError, FALSE)
  \/ HeartbeatTick
  \/ \E s \in CloudSlots : RequestHeartbeat(s)
  \/ \E s \in HubSlots : HubSocketClose(s)
  \/ Stop

SpecBeat == InitRunning /\ [][NextBeat]_vars

\* the last frame written in this step, when it is a heartbeat
HeartbeatWritten ==
  /\ Len(cloudOut') = Len(cloudOut) + 1
  /\ cloudOut'[Len(cloudOut')].type = "heartbeat"

\* the session on this.ws is one the cloud has authenticated
SessionAuthenticated == cloudWs # 0 /\ cloudSock[cloudWs] = "open" /\ cloudSrv[cloudWs] = "authed"

\* C32: a heartbeat is written only to a socket the cloud has authenticated;
\* the ticker is started by auth_result success, never more than one interval
\* is live, a close event and disconnect() leave none, and while the ticker
\* runs the authenticated flag is set and the session on this.ws is an
\* authenticated one.
C32_HeartbeatOnlyAuthenticated ==
  /\ [][HeartbeatWritten => cloudAuthenticated /\ SessionAuthenticated]_vars
  /\ [][lastAct' = "CloudAuthOk" => heartbeatTimer']_vars
  /\ [][lastAct' \in {"CloudSocketClose", "CloudConnectFail"} \/ (lastAct' = "Stop" /\ Alive') =>
          ~heartbeatTimer']_vars
  /\ [](tickers = IF heartbeatTimer THEN 1 ELSE 0)
  /\ [](heartbeatTimer => cloudAuthenticated /\ SessionAuthenticated)

\* HAWebSocketClient.isConnected
haIsConnected == haWs # 0 /\ haSock[haWs] = "open" /\ haAuthenticated

\* C33: the haConnected field of every heartbeat written equals the hub
\* session's connection state at the moment of the write.
C33_HeartbeatHubState ==
  [][HeartbeatWritten => cloudOut'[Len(cloudOut')].haConnected = haIsConnected]_vars

\* the ids under which a subscribe_events request was made
Subscriptions == {id \in MsgIds : rpc[id].owner = "subscribe"}

\* C34: every auth_ok makes exactly one subscribe_events request, under the
\* next id and written to the current socket; no other step makes one; and
\* while the hub session is authenticated the subscription recorded in
\* eventSubscriptionId was written to the current socket.
C34_SubscribeOnAuthOk ==
  /\ [][lastAct' = "HubAuthOk" =>
          /\ messageId \notin Subscriptions
          /\ Subscriptions' = Subscriptions \cup {messageId}
          /\ eventSubscriptionId' = messageId
          /\ subscribedOn' = haWs /\ haWs # 0
          /\ haAuthenticated']_vars
  /\ [][lastAct' # "HubAuthOk" => Subscriptions' = Subscriptions]_vars
  /\ [](haAuthenticated =>
          /\ eventSubscriptionId \in Subscriptions
          /\ haWs # 0 /\ subscribedOn = haWs /\ haSock[haWs] = "open")

\* the hub session was authenticated again on a second socket, with a second
\* subscription
C34_Witness ==
  /\ lastAct = "HubAuthOk"
  /\ haAuthenticated
  /\ Cardinality(Subscriptions) = 2
  /\ subscribedOn = haWs
  /\ eventSubscriptionId > 1

\* C35: while the buffer holds an event exactly one flush timeout is armed,
\* for 500 ms, and every flush leaves the buffer empty, whether it sent the
\* events, dropped them offline or failed to map them.
C35_BufferedHasTimer ==
  /\ [](stateChangeQueue # <<>> => batchTimer = batchIntervalMs /\ flushTimers = 1)
  /\ [][FlushStep => stateChangeQueue' = <<>>]_vars

\* ---- work that outlives a cloud connection -------------------------------
\* commands and full syncs are under way at the hub while the cloud socket
\* closes, the reconnect timer makes a new one, and it opens and is answered
NextResume ==
  \/ \E s \in CloudSlots, c \in CmdIds, x \in BOOLEAN : CloudCommand(s, c, TRUE, "ha_call_service", x)
  \/ \E s \in CloudSlots : RequestFullSync(s)
  \/ \E id \in MsgIds, success \in BOOLEAN : HubResult(id, success)
  \/ \E id \in MsgIds : CommandTimeout(id)
  \/ \E s \in CloudSlots : CloudSocketClose(s)
  \/ CloudReconnectTimer
  \/ \E s \in CloudSlots : CloudSocketOpen(s)
  \/ \E s \in CloudSlots, success \in BOOLEAN : CloudAuthResult(s, success, ServerAuthError, FALSE)

SpecResume == InitCmd /\ [][NextResume]_vars

\* the step wrote a command_ack, command_result, heartbeat, full_sync or
\* state_batch frame
FrameWritten ==
  \/ Len(cloudOut') > Len(cloudOut)
  \/ Len(syncOut') > Len(syncOut)
  \/ Len(batchOut') > Len(batchOut)

\* C36: every frame other than authenticate is written to a socket on which
\* auth_result success has been received.
C36_NoFrameBeforeAuth ==
  [][FrameWritten => cloudWs # 0 /\ cloudSrv[cloudWs] = "authed"]_vars

\* ---- the cloud's pairing endpoints under concurrent requests ------------
NextPairing ==
  \/ \E r \in Reqs, u \in Users : PairArrives(r, u)
  \/ \E r \in Reqs : PairGetPairingCode(r)
  \/ \E r \in Reqs : PairGetBridgeRegistration(r)
  \/ \E r \in Reqs : PairRevokeAllCredentials(r)
  \/ \E r \in Reqs : PairMarkPairingCodeUsed(r)
  \/ \E r \in Reqs : PairUpsertBridgeRegistration(r)
  \/ \E r \in Reqs : PairCreateBridgeCredential(r)
  \/ \E r \in Reqs : PairRespond(r)
  \/ \E r \in Reqs : StatusArrives(r)
  \/ \E r \in Reqs : StatusGetPairingCode(r)
  \/ \E r \in Reqs, c \in 0..MaxReqs : StatusGetUnclaimedCredential(r, c)
  \/ \E r \in Reqs : StatusMarkCredentialClaimed(r)
  \/ CodeExpires

SpecPairing == Init /\ [][NextPairing]_vars

\* the status requests answered with the raw value of credential c
AnsweredWith(c) ==
  {r \in Reqs : httpReq[r].kind = "status" /\ httpReq[r].resp = "paired_with_credential"
                   /\ httpReq[r].cred = c}

\* C37: every bridge credential is in the body of at most one status response.
C37_CredentialReturnedOnce ==
  \A c \in 1..Len(dbCreds) : Cardinality(AnsweredWith(c)) <= 1

\* the POST /pair requests answered with success
Redeemed == {r \in Reqs : httpReq[r].kind = "pair" /\ httpReq[r].resp = "success"}

\* C38: at most one POST /pair for the code succeeds, at most one bridge
\* credential is created for it, and every other answered POST /pair was
\* rejected (as already used, or as expired when the code had expired).
C38_RedeemedOnce ==
  /\ Cardinality(Redeemed) <= 1
  /\ Len(dbCreds) <= 1
  /\ Redeemed # {} =>
       \A r \in Reqs \ Redeemed :
          httpReq[r].kind = "pair" /\ httpReq[r].pc = "done" =>
             httpReq[r].resp \in {"already_used", "expired"}

\* ---- the cloud's WebSocket server ----------------------------------------
NextWsSrv ==
  \/ \E c \in SrvConns : SrvConnection(c)
  \/ \E c \in SrvConns, b \in SrvBridgeIds : SrvAuthenticate(c, b)
  \/ \E c \in SrvConns, valid \in BOOLEAN : SrvCredentialValidated(c, valid)
  \/ \E c \in SrvConns : SrvCloseEvent(c)
  \/ \E b \in SrvBridgeIds : SrvStale(b)
  \/ \E b \in SrvBridgeIds : SrvSendCommand(b)

SpecWsSrv == Init /\ [][NextWsSrv]_vars

\* connection c is an open, authenticated socket of bridge b
OpenAuthenticated(c, b) ==
  srvConn[c].st = "open" /\ srvConn[c].authenticated /\ srvConn[c].bridgeId = b

\* C39: while a bridge has an open authenticated socket, connectedBridges
\* holds an open authenticated connection of that bridge, and sendCommand for
\* it reports the command sent.
C39_ConnectedBridgeMapped ==
  /\ [](\A b \in SrvBridgeIds :
          (\E c \in SrvConns : OpenAuthenticated(c, b)) =>
             connectedBridges[b] # 0 /\ OpenAuthenticated(connectedBridges[b], b))
  /\ [][\A b \in SrvBridgeIds :
          lastAct' = "SrvSendCommand" /\ srvDelivered'[b] # srvDelivered[b]
            /\ (\E c \in SrvConns : OpenAuthenticated(c, b)) => srvDelivered'[b] = "sent"]_vars

\* ---- the token refresh scheduler ----------------------------------------
NextSched ==
  \/ SchedStart
  \/ SchedStop
  \/ SchedTimeoutFires
  \/ SchedIntervalFires
  \/ CycleEnds

SpecSched == Init /\ [][NextSched]_vars

\* C40: a start() on a running scheduler makes no timer, never more than one
\* interval is live, and no refresh cycle is entered between a stop() and the
\* next start().
C40_StartIdempotentStopFinal ==
  /\ [][lastAct' = "SchedStartAgain" =>
          schedIntervals' = schedIntervals /\ schedTimeouts' = schedTimeouts]_vars
  /\ [](schedIntervals <= 1)
  /\ [][cycles'.started > cycles.started => ~schedStopped]_vars

====
